---------------------------- MODULE Spec2Model ----------------------------
(***************************************************************************)
(* Model of the KuzuDB backend of CodeGraphContext                         *)
(* (src/src/codegraphcontext/core/database_kuzu.py): the query dialect     *)
(* translator KuzuSessionWrapper._translate_query, the session             *)
(* KuzuSessionWrapper.run and the rows the embedded engine stores.         *)
(*                                                                         *)
(* A query string is modelled as the sequence of its fragments.  Each      *)
(* fragment is a record whose field t names the textual shape:             *)
(*   MERGE   "MERGE (var:label {f1: $p1, f2: $p2})"  (tick: label written  *)
(*           between backticks)                                            *)
(*   MATCH   "MATCH (var:label {f1: $p1})", "MATCH (var:label)" with no    *)
(*           props, "MATCH (var)" with label ""                            *)
(*   SETADD  "SET var += $param"                                           *)
(*   SETS    "SET var.k1 = $p1, var.k2 = $p2"                              *)
(*   PRED    "WHERE var:label" / "AND var:label" / "OR var:label"          *)
(*   POLY    "WHERE (v1:l1 OR v2:l2 OR v3:l3)"; a test already rewritten   *)
(*           by the single-label rule has eq = TRUE and reads              *)
(*           "label(v) = 'l'"                                              *)
(*   LABELEQ "WHERE label(var) = 'label'"                                  *)
(*   LABELIN "WHERE label(var) IN [l1, l2]"                                *)
(*   RET     "RETURN $param"                                               *)
(*   RETVAR  "RETURN var"                                                  *)
(*   RETLABELS0 "RETURN labels(var)[0]", RETLABELFN "RETURN label(var)"    *)
(*   RETCOALESCE "RETURN coalesce($param, 0)" (upper: spelt COALESCE)      *)
(*   REL     "MERGE (from)-[:type]->(to)"                                  *)
(*   DDL     "CREATE CONSTRAINT ..." / "CREATE INDEX ..."                  *)
(*   CREATETABLE "CREATE NODE TABLE `label`(...)"                          *)
(*   RETURN1 "RETURN 1"                                                    *)
(* The regular expressions of the source are modelled by what they match   *)
(* on these shapes.                                                        *)
(*                                                                         *)
(* A Python value is a record: [ty |-> "str", s], [ty |-> "int", i],       *)
(* [ty |-> "null"], [ty |-> "list", l] and [ty |-> "map", m] where m is    *)
(* the sequence of the dict's items [k, v] in insertion order.  A          *)
(* parameter map is a function from parameter names to values.             *)
(***************************************************************************)
EXTENDS Integers, Sequences, FiniteSets, TLC

VARIABLES
    store,        \* rows held by the embedded engine
    inQuery,      \* query given to the last call
    inParams,     \* parameter map given to the last call
    outQuery,     \* query returned by _translate_query
    outParams,    \* parameter map returned by _translate_query
    callerParams, \* the caller's parameter map object after the call
    status,       \* "idle", "translated", "ok", "noop" or "raised"
    repeated,     \* the last call repeated the query and key values of
                  \* the call before it
    executes,     \* conn.execute invocations made by the last call of run
    engineMsg,    \* message of the error conn.execute raised, or NoMsg
    raisedMsg,    \* message of the error run raised to its caller, or NoMsg
    instance,     \* KuzuDBManager._instance: 0 for None, else the object
    created,      \* manager objects made by super().__new__
    lock,         \* thread holding KuzuDBManager._lock, 0 when free
    db,           \* _db: 0 for None, else the handle being opened
    conn,         \* _conn: 0 for None, else the connection handle
    opens,        \* connection handles opened so far
    tables,       \* tables that exist in the database directory
    schemaDone,   \* handles whose _initialize_schema has returned
    closedHandles,\* handles cleared by close_driver
    closes,       \* close_driver calls made
    broken,       \* tables whose creation raises, and the class raised
    pc,           \* position of each thread
    mgr,          \* manager object each thread holds, 0 for none
    idx,          \* position of each thread in the bootstrap loops
    openedBy,     \* handle the thread opened in its current get_driver
    closedDuring, \* close_driver ran during the thread's get_driver
    driver,       \* <<h>> for the driver the last get_driver returned
    outcome,      \* how the thread's last get_driver ended
    connected,    \* what the last is_connected call returned
    environ,      \* os.environ: the variables that are set
    system,       \* platform.system()
    py312,        \* sys.version_info >= (3, 12)
    installed,    \* modules importlib can find
    backend,      \* what get_database_manager gave its caller
    facpc,        \* where the get_database_manager call stands
    heap,         \* attributes of the engine's node objects, by object
    result,       \* the native result a KuzuResultWrapper holds
    records,      \* the KuzuRecords the caller has from list(wrapper)
    answer,       \* what the caller has from single() or data()
    key,          \* the index or name last asked of a record
    got,          \* what record[key] gave
    project,      \* the project root a HybridIndexer was made for
    tools,        \* what the SCIP and Tree-sitter tools do when called
    chosen,       \* what _choose_indexer returned
    ran,          \* the indexers whose index() ran, in order
    returned,     \* what HybridIndexer.index gave its caller
    scip_data,    \* the parsed SCIP index given to the conversion
    symbols       \* IndexResult.symbols of the conversion

sessVars ==
    <<store, inQuery, inParams, outQuery, outParams, callerParams, status,
      repeated, executes, engineMsg, raisedMsg>>

mgrVars ==
    <<instance, created, lock, db, conn, opens, tables, schemaDone,
      closedHandles, closes, broken, pc, mgr, idx, openedBy, closedDuring,
      driver, outcome, connected>>

facVars == <<environ, system, py312, installed, backend, facpc>>

recVars == <<heap, result, records, answer, key, got>>

idxVars == <<project, tools, chosen, ran, returned, scip_data, symbols>>

vars == <<sessVars, mgrVars, facVars, recVars, idxVars>>

---------------------------------------------------------------------------
(* Python values *)

StrV(s) == [ty |-> "str", s |-> s]
IntV(i) == [ty |-> "int", i |-> i]
NullV == [ty |-> "null"]
ListV(l) == [ty |-> "list", l |-> l]
MapV(m) == [ty |-> "map", m |-> m]

\* The class statement of each exception class the model raises: the class
\* and its base.  Abort and MyInterrupt stand for classes a program
\* defines below BaseException and below KeyboardInterrupt; BaseException
\* has no base.
ClassBases ==
    ("Exception" :> "BaseException") @@ ("KeyboardInterrupt" :> "BaseException")
    @@ ("SystemExit" :> "BaseException") @@ ("GeneratorExit" :> "BaseException")
    @@ ("BaseExceptionGroup" :> "BaseException")
    @@ ("CancelledError" :> "BaseException")
    @@ ("Abort" :> "BaseException") @@ ("MyInterrupt" :> "KeyboardInterrupt")
    @@ ("RuntimeError" :> "Exception") @@ ("ValueError" :> "Exception")
    @@ ("TypeError" :> "Exception") @@ ("AttributeError" :> "Exception")
    @@ ("LookupError" :> "Exception") @@ ("KeyError" :> "LookupError")
    @@ ("IndexError" :> "LookupError") @@ ("OSError" :> "Exception")
    @@ ("PermissionError" :> "OSError") @@ ("FileNotFoundError" :> "OSError")
    @@ ("SubprocessError" :> "Exception")
    @@ ("TimeoutExpired" :> "SubprocessError")
    @@ ("ImportError" :> "Exception")
    @@ ("ModuleNotFoundError" :> "ImportError")

\* issubclass(c, b): what "except b" tests of an exception of class c.
RECURSIVE IsSubclass(_, _)
IsSubclass(c, b) ==
    c = b \/ (c \in DOMAIN ClassBases /\ IsSubclass(ClassBases[c], b))

\* repr(s) of a str of printable characters, line feeds, tabs, carriage
\* returns and form feeds: between double quotes when s holds a single
\* quote and no double quote, between single quotes otherwise; the
\* backslash, the control characters and the enclosing quote are escaped.
ReprStr(s) ==
    LET q == IF (\E i \in 1..Len(s) : SubSeq(s, i, i) = "'")
                /\ ~(\E i \in 1..Len(s) : SubSeq(s, i, i) = "\"")
             THEN "\"" ELSE "'"
        ch(c) == IF c = "\\" THEN "\\\\"
                 ELSE IF c = "\n" THEN "\\n"
                 ELSE IF c = "\t" THEN "\\t"
                 ELSE IF c = "\r" THEN "\\r"
                 ELSE IF c = "\f" THEN "\\x0c"
                 ELSE IF c = q THEN "\\" \o q
                 ELSE c
        RECURSIVE chars(_)
        chars(t) == IF t = "" THEN ""
                    ELSE ch(SubSeq(t, 1, 1)) \o chars(SubSeq(t, 2, Len(t)))
    IN q \o chars(s) \o q

\* repr(v), which str() of a list or dict applies to what it holds.
RECURSIVE PyRepr(_)
RECURSIVE ReprItems(_)
RECURSIVE ReprPairs(_)
PyRepr(v) ==
    IF v.ty = "str" THEN ReprStr(v.s)
    ELSE IF v.ty = "int" THEN ToString(v.i)
    ELSE IF v.ty = "null" THEN "None"
    ELSE IF v.ty = "list" THEN "[" \o ReprItems(v.l) \o "]"
    ELSE "{" \o ReprPairs(v.m) \o "}"

ReprItems(l) ==
    IF l = <<>> THEN ""
    ELSE PyRepr(Head(l)) \o (IF Len(l) > 1 THEN ", " ELSE "")
            \o ReprItems(Tail(l))

ReprPairs(m) ==
    IF m = <<>> THEN ""
    ELSE ReprStr(Head(m).k) \o ": " \o PyRepr(Head(m).v)
            \o (IF Len(m) > 1 THEN ", " ELSE "") \o ReprPairs(Tail(m))

\* str(p_val) at line 304.
PyStr(v) ==
    IF v.ty = "str" THEN v.s ELSE PyRepr(v)

\* s.startswith(pre) and s.endswith(suf)
StartsWith(s, pre) ==
    Len(pre) <= Len(s) /\ SubSeq(s, 1, Len(pre)) = pre

EndsWith(s, suf) ==
    Len(suf) <= Len(s) /\ SubSeq(s, Len(s) - Len(suf) + 1, Len(s)) = suf

EmptyParams == [x \in {} |-> NullV]

\* parameters.get(name): None when the name is absent.
ParamGet(params, name) ==
    IF name \in DOMAIN params THEN params[name] ELSE NullV

---------------------------------------------------------------------------
(* Schema Registry *)

ConstructCols ==
    {"uid", "name", "path", "line_number", "end_line", "source",
     "docstring", "lang", "is_dependency"}

\* SCHEMA_MAP of _translate_query; a label it does not hold maps to {}.
SCHEMA_MAP(label) ==
    CASE label = "Repository" -> {"path", "name", "is_dependency"}
      [] label = "File" -> {"path", "name", "relative_path", "is_dependency"}
      [] label = "Directory" -> {"path", "name"}
      [] label = "Module" -> {"name", "lang", "full_import_name"}
      [] label = "Function" ->
            ConstructCols \cup {"cyclomatic_complexity", "context",
                "context_type", "class_context", "decorators", "args"}
      [] label = "Class" -> ConstructCols \cup {"decorators"}
      [] label = "Variable" ->
            (ConstructCols \ {"end_line"}) \cup {"value", "context"}
      [] label \in {"Trait", "Interface", "Macro", "Struct", "Enum",
                    "Union", "Annotation", "Record", "Property"} ->
            ConstructCols
      [] label = "Parameter" ->
            {"uid", "name", "path", "function_line_number"}
      [] OTHER -> {}

CompositeLabels ==
    {"Function", "Class", "Variable", "Trait", "Interface", "Macro",
     "Struct", "Enum", "Union", "Annotation", "Record", "Property",
     "Parameter"}

\* self.uid_map: the ordered key fields of a composite-key label.
uid_map(label) ==
    IF label = "Parameter"
    THEN <<"name", "path", "function_line_number">>
    ELSE <<"name", "path", "line_number">>

\* labels_to_escape: three node labels and two relationship types.
labels_to_escape == {"Macro", "Union", "Property", "CONTAINS", "CALLS"}

---------------------------------------------------------------------------
(* Fragments *)

Prop(f, p) == [f |-> f, p |-> p]
Merge(v, l, tick, props) ==
    [t |-> "MERGE", var |-> v, label |-> l, tick |-> tick, props |-> props]
Match(v, l, tick, props) ==
    [t |-> "MATCH", var |-> v, label |-> l, tick |-> tick, props |-> props]
SetAdd(v, p) == [t |-> "SETADD", var |-> v, param |-> p]
Sets(v, assigns) == [t |-> "SETS", var |-> v, assigns |-> assigns]
Pred(kw, v, l, tick) ==
    [t |-> "PRED", kw |-> kw, var |-> v, label |-> l, tick |-> tick]
Test(v, l) == [var |-> v, label |-> l, tick |-> FALSE, eq |-> FALSE]
Poly(kw, tests) == [t |-> "POLY", kw |-> kw, tests |-> tests]
LabelEq(kw, v, l) == [t |-> "LABELEQ", kw |-> kw, var |-> v, label |-> l]
LabelIn(kw, v, ls) == [t |-> "LABELIN", kw |-> kw, var |-> v, labels |-> ls]
Ret(p) == [t |-> "RET", param |-> p]
RetVar(v) == [t |-> "RETVAR", var |-> v]
RetLabels0(v) == [t |-> "RETLABELS0", var |-> v]
RetLabelFn(v) == [t |-> "RETLABELFN", var |-> v]
RetCoalesce(upper, p) == [t |-> "RETCOALESCE", upper |-> upper, param |-> p]
Rel(a, ty, tick, b) ==
    [t |-> "REL", from |-> a, type |-> ty, tick |-> tick, to |-> b]
Ddl == [t |-> "DDL"]
CreateTable(l) == [t |-> "CREATETABLE", label |-> l]
Return1 == [t |-> "RETURN1"]
\* Text that is no clause of the language.
Text(s) == [t |-> "TEXT", s |-> s]

Range(s) == {s[i] : i \in DOMAIN s}

\* What query.replace(match.group(0), ...) makes of fragment f, old being
\* SET v += $p: the text of old is replaced where it stands, also at the
\* head of SET v += $pX, whose X then follows the replacement: it
\* lengthens the last parameter name of the assignments, or stands alone
\* when nothing replaces the text.
ReplaceIn(f, old, new) ==
    IF f = old THEN new
    ELSE IF /\ f.t = "SETADD"
            /\ f.var = old.var
            /\ StartsWith(f.param, old.param)
    THEN LET rest == SubSeq(f.param, Len(old.param) + 1, Len(f.param)) IN
         IF new = <<>> THEN <<Text(rest)>>
         ELSE LET a == new[1].assigns
                  n == Len(a)
              IN <<Sets(new[1].var,
                        [a EXCEPT ![n] = [k |-> a[n].k, p |-> a[n].p \o rest]])>>
    ELSE <<f>>

\* query.replace(match.group(0), ...) over the whole query.
RECURSIVE ReplaceAll(_, _, _)
ReplaceAll(q, old, new) ==
    IF q = <<>> THEN <<>>
    ELSE ReplaceIn(Head(q), old, new) \o ReplaceAll(Tail(q), old, new)

\* re.findall(r'\$(\w+)', query): the parameter names a query references.
FragRefs(f) ==
    CASE f.t \in {"MERGE", "MATCH"} -> {f.props[i].p : i \in DOMAIN f.props}
      [] f.t = "SETS" -> {f.assigns[i].p : i \in DOMAIN f.assigns}
      [] f.t \in {"SETADD", "RET", "RETCOALESCE"} -> {f.param}
      [] OTHER -> {}

used_params(q) == UNION {FragRefs(q[i]) : i \in DOMAIN q}

---------------------------------------------------------------------------
(* Rule 1: SET var += $param *)

\* re.search(r'SET\s+(\w+)\s*\+=\s*\$(\w+)', query): the first such
\* fragment, 0 when there is none.
FirstSetAdd(q) ==
    IF \E i \in DOMAIN q : q[i].t = "SETADD"
    THEN CHOOSE i \in DOMAIN q :
            q[i].t = "SETADD" /\ \A j \in 1..(i - 1) : q[j].t # "SETADD"
    ELSE 0

\* Whether r'\(node_var:(\w+)' matches inside fragment f, and the label it
\* captures: a node pattern or the opening test of a parenthesised
\* disjunction when that test is written v:L, with the label not between
\* backticks.
DefLabelOf(f, v) ==
    CASE f.t \in {"MERGE", "MATCH"} ->
            IF f.var = v /\ f.label # "" /\ ~f.tick THEN f.label ELSE ""
      [] f.t = "POLY" ->
            IF f.tests[1].var = v /\ ~f.tests[1].tick /\ ~f.tests[1].eq
            THEN f.tests[1].label ELSE ""
      [] OTHER -> ""

\* def_match: the label of the first match in the query, "" for None.
RECURSIVE def_match(_, _)
def_match(q, v) ==
    IF q = <<>> THEN ""
    ELSE IF DefLabelOf(Head(q), v) # "" THEN DefLabelOf(Head(q), v)
    ELSE def_match(Tail(q), v)

\* KeyDropped with the allow-list test inverted.
KeyDropped_Inverted(item, label) ==
    \/ item.v.ty \in {"map", "list"} /\ item.k # "args" /\ item.k # "decorators"
    \/ label # "" /\ SCHEMA_MAP(label) # {} /\ item.k \in SCHEMA_MAP(label)

\* The two tests of the loop body that skip a key (lines 270-274).
KeyDropped(item, label) ==
    \/ item.v.ty \in {"map", "list"} /\ item.k # "args" /\ item.k # "decorators"
    \/ label # "" /\ SCHEMA_MAP(label) # {} /\ item.k \notin SCHEMA_MAP(label)

RECURSIVE KeptItems(_, _)
KeptItems(items, label) ==
    IF items = <<>> THEN <<>>
    ELSE (IF KeyDropped(Head(items), label) THEN <<>> ELSE <<Head(items)>>)
            \o KeptItems(Tail(items), label)

clean_k(param_name, k) == param_name \o "_" \o k

\* Lines 251-285.  Returns the query, the working parameter map and
\* whether the working map is a copy (TRUE) or the caller's own object.
ExpandSetAdd(q, params) ==
    LET i == FirstSetAdd(q) IN
    IF i = 0 THEN [q |-> q, params |-> params, copied |-> FALSE]
    ELSE
      LET frag == q[i]
          props_dict == IF frag.param \in DOMAIN params
                        THEN params[frag.param] ELSE MapV(<<>>)
      IN
      IF props_dict.ty # "map"
      THEN [q |-> q, params |-> params, copied |-> FALSE]
      ELSE
        LET label == def_match(q, frag.var)
            kept == KeptItems(props_dict.m, label)
            set_clauses ==
                [j \in 1..Len(kept) |->
                    [k |-> kept[j].k, p |-> clean_k(frag.param, kept[j].k)]]
            cleanNames == {set_clauses[j].p : j \in 1..Len(kept)}
            valueOf(n) ==
                kept[CHOOSE j \in 1..Len(kept) : set_clauses[j].p = n].v
            new_params ==
                [n \in ((DOMAIN params) \cup cleanNames) \ {frag.param} |->
                    IF n \in cleanNames THEN valueOf(n) ELSE params[n]]
        IN
        IF Len(kept) > 0
        THEN [q |-> ReplaceAll(q, frag, <<Sets(frag.var, set_clauses)>>),
              params |-> new_params, copied |-> TRUE]
        ELSE [q |-> ReplaceAll(q, frag, <<>>),
              params |-> params, copied |-> FALSE]

---------------------------------------------------------------------------
(* Rule 2: uid injection for MERGE *)

\* Whether rf'{part}:\s*\$(\w+)' matches at inline property f: the field
\* name ends with the key field's name (the pattern has no word boundary).
PartMatches(part, f) ==
    EndsWith(f, part)

\* p_match: the index of the first inline property the pattern matches,
\* 0 when none.
p_match(part, props) ==
    IF \E i \in DOMAIN props : PartMatches(part, props[i].f)
    THEN CHOOSE i \in DOMAIN props :
            /\ PartMatches(part, props[i].f)
            /\ \A j \in 1..(i - 1) : ~PartMatches(part, props[j].f)
    ELSE 0

\* The loop of lines 299-306 from key field i on: can_build_uid and uid_val.
RECURSIVE BuildUid(_, _, _, _)
BuildUid(pk_parts, i, props, params) ==
    IF i > Len(pk_parts) THEN [can_build_uid |-> TRUE, uid_val |-> ""]
    ELSE
      LET m == p_match(pk_parts[i], props) IN
      IF m = 0 THEN [can_build_uid |-> FALSE, uid_val |-> ""]
      ELSE
        LET p_val == ParamGet(params, props[m].p) IN
        IF p_val.ty = "null" THEN [can_build_uid |-> FALSE, uid_val |-> ""]
        ELSE
          LET rest == BuildUid(pk_parts, i + 1, props, params) IN
          [can_build_uid |-> rest.can_build_uid,
           uid_val |-> PyStr(p_val) \o rest.uid_val]

\* Synthesize without the last key field.
Synthesize_TwoFields(label, props, params) ==
    BuildUid(SubSeq(uid_map(label), 1, 2), 1, props, params)

\* Synthesize with path before name.
Synthesize_PathFirst(label, props, params) ==
    BuildUid(<<uid_map(label)[2], uid_map(label)[1], uid_map(label)[3]>>,
             1, props, params)

\* The identity synthesized for label from inline props and parameters.
Synthesize(label, props, params) ==
    BuildUid(uid_map(label), 1, props, params)

uid_param(var_name) == "__uid_" \o var_name

\* query.replace(old_block, new_block): every inline block of the query
\* whose text is that of props gains the uid property.
ReplaceBlock(q, props, var_name) ==
    [i \in DOMAIN q |->
        IF q[i].t \in {"MERGE", "MATCH"} /\ q[i].props = props
        THEN [q[i] EXCEPT !.props = Append(props, Prop("uid", uid_param(var_name)))]
        ELSE q[i]]

\* Whether merge_pattern matches fragment f: a MERGE node pattern with a
\* label and a non-empty inline block.
MergeMatches(f) == f.t = "MERGE" /\ f.label # "" /\ Len(f.props) > 0

\* The loop of lines 292-321 over the matches found in q0 (the query as it
\* stood when the matches were collected), from fragment i on.
RECURSIVE InjectUid(_, _, _, _)
InjectUid(q0, i, q, params) ==
    IF i > Len(q0) THEN [q |-> q, params |-> params]
    ELSE
      LET m == q0[i] IN
      IF ~(MergeMatches(m) /\ m.label \in CompositeLabels)
      THEN InjectUid(q0, i + 1, q, params)
      ELSE
        LET b == Synthesize(m.label, m.props, params) IN
        IF ~b.can_build_uid THEN InjectUid(q0, i + 1, q, params)
        ELSE InjectUid(q0, i + 1, ReplaceBlock(q, m.props, m.var),
                       (uid_param(m.var) :> StrV(b.uid_val)) @@ params)

---------------------------------------------------------------------------
(* Rules 3 and 4: keyword labels, label predicates *)

EscapeTest(x) ==
    IF x.label \in labels_to_escape /\ ~x.eq
    THEN [x EXCEPT !.tick = TRUE] ELSE x

\* re.sub(rf':{label}\b', ...) for each label of labels_to_escape.
EscapeFrag(f) ==
    CASE f.t \in {"MERGE", "MATCH", "PRED"} ->
            IF f.label \in labels_to_escape
            THEN [f EXCEPT !.tick = TRUE] ELSE f
      [] f.t = "REL" ->
            IF f.type \in labels_to_escape
            THEN [f EXCEPT !.tick = TRUE] ELSE f
      [] f.t = "POLY" ->
            [f EXCEPT !.tests = [i \in DOMAIN f.tests |-> EscapeTest(f.tests[i])]]
      [] OTHER -> f

\* query.replace("labels(n)[0]", "label(n)"): the variable is spelt n.
LabelsFrag(f) ==
    IF f.t = "RETLABELS0" /\ f.var = "n" THEN RetLabelFn("n") ELSE f

\* Whether the disjunction pattern of line 340 matches fragment f: at
\* least two tests, all on the variable of the first, none between
\* backticks.
PolyMatches(f) ==
    /\ f.t = "POLY"
    /\ Len(f.tests) >= 2
    /\ \A i \in DOMAIN f.tests :
        /\ f.tests[i].var = f.tests[1].var
        /\ ~f.tests[i].tick
        /\ ~f.tests[i].eq

poly_replacer(f) ==
    IF PolyMatches(f)
    THEN LabelIn(f.kw, f.tests[1].var,
                 [i \in DOMAIN f.tests |-> f.tests[i].label])
    ELSE f

\* The substitution of line 351: a label test that follows WHERE, AND or
\* OR and whose label is not between backticks.
single_label_replacer(f) ==
    CASE f.t = "PRED" ->
            IF ~f.tick THEN LabelEq(f.kw, f.var, f.label) ELSE f
      [] f.t = "POLY" ->
            [f EXCEPT !.tests =
                [i \in DOMAIN f.tests |->
                    IF i >= 2 /\ ~f.tests[i].tick
                    THEN [f.tests[i] EXCEPT !.eq = TRUE]
                    ELSE f.tests[i]]]
      [] OTHER -> f

CoalesceFrag(f) ==
    IF f.t = "RETCOALESCE" THEN [f EXCEPT !.upper = TRUE] ELSE f

RewriteLabels(q) ==
    [i \in DOMAIN q |->
        CoalesceFrag(single_label_replacer(poly_replacer(
            LabelsFrag(EscapeFrag(q[i])))))]

---------------------------------------------------------------------------
(* _translate_query *)

\* Rule 7: the parameters the rewritten query still references.
Cleanup(q, params) ==
    [n \in (DOMAIN params) \cap used_params(q) |-> params[n]]

\* The whole of _translate_query.  q and params are what it returns; caller
\* is the state of the caller's own parameter map afterwards.
translate_query(query, parameters) ==
    LET r1 == ExpandSetAdd(query, parameters)
        r2 == InjectUid(r1.q, 1, r1.q, r1.params)
        q4 == RewriteLabels(r2.q)
        caller == IF r1.copied THEN parameters ELSE r2.params
    IN
    IF \E i \in DOMAIN q4 : q4[i].t = "DDL"
    THEN [q |-> <<Return1>>, params |-> EmptyParams, caller |-> caller]
    ELSE [q |-> q4, params |-> Cleanup(q4, r2.params), caller |-> caller]

---------------------------------------------------------------------------
(* The embedded engine behind conn.execute *)

NodeLabels ==
    {"Repository", "File", "Directory", "Module"} \cup CompositeLabels

TableConstructCols ==
    {"uid", "name", "path", "line_number", "end_line", "source",
     "docstring", "lang", "is_dependency"}

\* node_tables with the Function table created without its docstring column.
node_tables_NoDocstring(label) ==
    CASE label = "Repository" -> {"path", "name", "is_dependency"}
      [] label = "File" -> {"path", "name", "relative_path", "is_dependency"}
      [] label = "Directory" -> {"path", "name"}
      [] label = "Module" -> {"name", "lang", "full_import_name"}
      [] label = "Function" ->
            (TableConstructCols \ {"docstring"}) \cup
                {"cyclomatic_complexity", "context", "context_type",
                 "class_context", "decorators", "args"}
      [] label = "Class" -> TableConstructCols \cup {"decorators"}
      [] label = "Variable" ->
            (TableConstructCols \ {"end_line"}) \cup {"value", "context"}
      [] label = "Parameter" ->
            {"uid", "name", "path", "function_line_number"}
      [] OTHER -> TableConstructCols

\* The columns of each node table created by _initialize_schema.
node_tables(label) ==
    CASE label = "Repository" -> {"path", "name", "is_dependency"}
      [] label = "File" -> {"path", "name", "relative_path", "is_dependency"}
      [] label = "Directory" -> {"path", "name"}
      [] label = "Module" -> {"name", "lang", "full_import_name"}
      [] label = "Function" ->
            TableConstructCols \cup {"cyclomatic_complexity", "context",
                "context_type", "class_context", "decorators", "args"}
      [] label = "Class" -> TableConstructCols \cup {"decorators"}
      [] label = "Variable" ->
            (TableConstructCols \ {"end_line"}) \cup {"value", "context"}
      [] label = "Parameter" ->
            {"uid", "name", "path", "function_line_number"}
      [] OTHER -> TableConstructCols

\* PRIMARY KEY (...) of each node table.
PrimaryKey(label) ==
    IF label \in {"Repository", "File", "Directory"} THEN "path"
    ELSE IF label = "Module" THEN "name"
    ELSE "uid"

\* A stored row is [label, cols]: cols maps the columns that were written
\* to their values.  RowId identifies it within its table.
RowId(r) == <<r.label, r.cols[PrimaryKey(r.label)]>>

\* The value the inline block binds to field f (the last binding wins).
InlineValue(props, params, f) ==
    params[props[CHOOSE i \in DOMAIN props :
                    /\ props[i].f = f
                    /\ \A j \in (i + 1)..Len(props) : props[j].f # f].p]

\* The rows a node pattern matches: those of its table (of every table
\* when it has no label) that hold every inline value.
PatternRows(st, f, params) ==
    {r \in st :
        /\ f.label = "" \/ r.label = f.label
        /\ \A i \in DOMAIN f.props :
            /\ f.props[i].f \in DOMAIN r.cols
            /\ r.cols[f.props[i].f] = params[f.props[i].p]}

\* Whether the engine accepts a node pattern: a known table, known columns,
\* bound non-null values.
PatternOk(f, params) ==
    /\ f.label = "" \/ f.label \in NodeLabels
    /\ f.label = "" => Len(f.props) = 0
    /\ \A i \in DOMAIN f.props :
        /\ f.props[i].f \in node_tables(f.label)
        /\ f.props[i].p \in DOMAIN params
        /\ params[f.props[i].p].ty \in {"str", "int"}

NewRow(f, params) ==
    [label |-> f.label,
     cols |-> [c \in {f.props[i].f : i \in DOMAIN f.props} |->
                  InlineValue(f.props, params, c)]]

\* An assignment the engine accepts: a column of the row's table other
\* than a nested map, from a bound parameter.
AssignOk(label, a, params) ==
    /\ a.k \in node_tables(label)
    /\ a.p \in DOMAIN params
    /\ params[a.p].ty # "map"

RECURSIVE ApplyAssigns(_, _, _)
ApplyAssigns(cols, assigns, params) ==
    IF assigns = <<>> THEN cols
    ELSE ApplyAssigns((Head(assigns).k :> params[Head(assigns).p]) @@ cols,
                      Tail(assigns), params)

\* A failed statement with the engine's message; it leaves the store as
\* it was (auto-commit).
Failure(st) == [ok |-> FALSE, store |-> st, err |-> "other"]
AlreadyExists(st) == [ok |-> FALSE, store |-> st, err |-> "already exists"]
Success(st) == [ok |-> TRUE, store |-> st, err |-> ""]

\* An error message is its text; NoMsg stands for no error.
NoMsg == ""

\* The texts the engine may give an error of each kind.
Messages(err) ==
    CASE err = "already exists" ->
            {"Binder exception: Function already exists in catalog.",
             "Tabelle Ü ALREADY EXISTS."}
      [] err = "other" ->
            {"Runtime exception: Found duplicated primary key value",
             "ÉCHEC: la table EXISTE"}
      [] OTHER -> {NoMsg}

EmptyEnv == [v \in {} |-> {}]

\* One statement, fragment by fragment from i on.  env maps each bound
\* variable to the ids of its rows; st is the store written so far and
\* st0 the store before the statement.
RECURSIVE ExecFrom(_, _, _, _, _, _)
ExecFrom(q, i, env, st, params, st0) ==
    IF i > Len(q) THEN Success(st)
    ELSE
      LET f == q[i] IN
      CASE f.t = "MERGE" ->
            IF ~PatternOk(f, params) \/ f.label = "" THEN Failure(st0)
            ELSE
              LET found == PatternRows(st, f, params) IN
              IF found # {}
              THEN ExecFrom(q, i + 1, (f.var :> {RowId(r) : r \in found}) @@ env,
                            st, params, st0)
              ELSE
                LET row == NewRow(f, params) IN
                IF \/ PrimaryKey(f.label) \notin DOMAIN row.cols
                   \/ \E r \in st : RowId(r) = RowId(row)
                THEN Failure(st0)
                ELSE ExecFrom(q, i + 1, (f.var :> {RowId(row)}) @@ env,
                              st \cup {row}, params, st0)
        [] f.t = "MATCH" ->
            IF ~PatternOk(f, params) THEN Failure(st0)
            ELSE ExecFrom(q, i + 1,
                    (f.var :> {RowId(r) : r \in PatternRows(st, f, params)}) @@ env,
                    st, params, st0)
        [] f.t = "SETS" ->
            IF f.var \notin DOMAIN env THEN Failure(st0)
            ELSE
              LET hit == {r \in st : RowId(r) \in env[f.var]} IN
              IF \E r \in hit : \E j \in DOMAIN f.assigns :
                    ~AssignOk(r.label, f.assigns[j], params)
              THEN Failure(st0)
              ELSE ExecFrom(q, i + 1, env,
                    (st \ hit) \cup
                        {[r EXCEPT !.cols = ApplyAssigns(r.cols, f.assigns, params)] :
                            r \in hit},
                    params, st0)
        [] f.t \in {"LABELEQ", "LABELIN"} ->
            IF f.var \notin DOMAIN env THEN Failure(st0)
            ELSE
              LET wanted == IF f.t = "LABELEQ" THEN {f.label} ELSE Range(f.labels) IN
              ExecFrom(q, i + 1,
                       [env EXCEPT ![f.var] = {id \in @ : id[1] \in wanted}],
                       st, params, st0)
        [] f.t \in {"RET", "RETCOALESCE"} ->
            IF f.param \notin DOMAIN params \/ (f.t = "RETCOALESCE" /\ ~f.upper)
            THEN Failure(st0)
            ELSE ExecFrom(q, i + 1, env, st, params, st0)
        [] f.t \in {"RETVAR", "RETLABELFN"} ->
            IF f.var \notin DOMAIN env THEN Failure(st0)
            ELSE ExecFrom(q, i + 1, env, st, params, st0)
        [] f.t = "RETURN1" -> ExecFrom(q, i + 1, env, st, params, st0)
        [] f.t = "REL" ->
            IF f.from \notin DOMAIN env \/ f.to \notin DOMAIN env
            THEN Failure(st0)
            ELSE ExecFrom(q, i + 1, env, st, params, st0)
        [] f.t = "CREATETABLE" ->
            IF f.label \in NodeLabels THEN AlreadyExists(st0)
            ELSE ExecFrom(q, i + 1, env, st, params, st0)
        \* += , an inline label test in a predicate, labels(v)[0], a
        \* schema statement: not in the embedded dialect
        [] OTHER -> Failure(st0)

\* conn.execute(translated_query, translated_params): unused bound
\* parameters are rejected.
Execute(st, q, params) ==
    IF (DOMAIN params) # used_params(q) THEN Failure(st)
    ELSE ExecFrom(q, 1, EmptyEnv, st, params, st)

---------------------------------------------------------------------------
(* Inputs *)

\* Most label tests in one parenthesised disjunction.
MaxTests == 3
Names == {"foo", "fo"}
Paths == {"/x.py", "o/x.py"}
Lines == {10, 1}
DocStrings == {"d1", "d2"}

Item(k, v) == [k |-> k, v |-> v]
DocOnly(d) == MapV(<<Item("docstring", StrV(d))>>)
\* An allow-listed scalar, a second one, a key outside every allow-list, a
\* nested map, a nested list, and the list-valued decorators.
RichProps ==
    MapV(<<Item("docstring", StrV("d1")),
           Item("source", StrV("s")),
           Item("extra", IntV(1)),
           Item("context", MapV(<<Item("a", IntV(1))>>)),
           Item("lang", ListV(<<StrV("py")>>)),
           Item("decorators", ListV(<<StrV("x")>>))>>)
NotAMap == StrV("oops")
\* A property map that names a key field of the entity.
Renaming == MapV(<<Item("name", StrV("fo"))>>)
PropMaps == {DocOnly(d) : d \in DocStrings} \cup {RichProps, NotAMap, MapV(<<>>)}

\* The inline block the extraction pipeline writes for a label.
KeyProps(K) ==
    IF K \in CompositeLabels
    THEN <<Prop("name", "name"), Prop("path", "path"),
           Prop(IF K = "Parameter" THEN "function_line_number"
                ELSE "line_number", "line_number")>>
    ELSE IF PrimaryKey(K) = "name" THEN <<Prop("name", "name")>>
    ELSE <<Prop("path", "path")>>

\* MERGE (v:K {key fields}) SET v += $props
Upsert(v, K, tick) == <<Merge(v, K, tick, KeyProps(K)), SetAdd(v, "props")>>

KeyParams(n, p, l) == [name |-> n, path |-> p, line_number |-> l]
UpsertParams(n, p, l, pm) ==
    [name |-> n, path |-> p, line_number |-> l, props |-> pm]

Input(q, params) == [q |-> q, params |-> params]

SessionLabels == {"Function"}

\* What the session is driven with: upserts, bare merges, a read with a
\* label disjunction and a table creation.
SessionInputs ==
    {Input(Upsert("n", K, FALSE), UpsertParams(StrV(n), StrV(p), IntV(10), pm)) :
        K \in SessionLabels, n \in Names, p \in Paths, pm \in PropMaps}
    \cup
    {Input(<<Merge("n", "Function", FALSE, KeyProps("Function"))>>,
           KeyParams(StrV(n), StrV(p), IntV(10))) : n \in Names, p \in Paths}
    \cup
    {Input(<<Match("n", "", FALSE, <<>>),
             Poly("WHERE", <<Test("n", "Function"), Test("n", l)>>),
             RetVar("n")>>, EmptyParams) : l \in {"Class", "Macro"}}
    \cup
    {Input(<<CreateTable("Function")>>, EmptyParams)}

\* Upserts with an arbitrary property map: one that names a key field
\* among them.
UpsertInputs ==
    {Input(Upsert("n", K, FALSE), UpsertParams(StrV(n), StrV(p), IntV(10), pm)) :
        K \in SessionLabels, n \in Names, p \in Paths,
        pm \in {DocOnly("d1"), Renaming}}

Vars == {"n", "m"}
TLabels == {"Function", "Class", "Macro", "Parameter", "File", "Foo"}
PolyLabels == {"Function", "Class", "Macro"}
PathValues == {StrV(p) : p \in Paths} \cup {NullV}

\* Further parameters a caller may pass along: none, one the query never
\* references, one named like a parameter the expansion generates.
ExtraParams ==
    {EmptyParams, [b |-> IntV(2)], [props_docstring |-> StrV("mine")]}

TestSeqs ==
    UNION {[1..k -> {Test(v, l) : v \in Vars, l \in PolyLabels}] : k \in 2..MaxTests}

\* Texts with a line feed, a tab, a carriage return, a form feed, a
\* backslash, a single quote, a double quote, and both quotes.
QuotedTexts ==
    {"a\nb", "a\tb", "a\rb", "a\fb", "a\\b", "it's", "say \"x\"",
     "it's \"x\""}

\* What the translator alone is driven with.
TranslatorInputs ==
    \* an upsert on each kind of label, written plainly or between backticks
    {Input(Upsert(v, K, tick),
           UpsertParams(StrV(n), p, IntV(l), pm) @@ extra) :
        v \in {"n"}, K \in TLabels, tick \in BOOLEAN, n \in Names,
        p \in PathValues, l \in Lines, pm \in PropMaps, extra \in ExtraParams}
    \cup
    \* a merge that lacks a key field
    {Input(<<Merge("n", K, FALSE, SubSeq(KeyProps(K), 1, 2))>>,
           [name |-> StrV(n), path |-> StrV(p)]) :
        K \in {"Function", "Parameter"}, n \in Names, p \in Paths}
    \cup
    \* two merges in one statement
    {Input(<<Merge("a", K1, FALSE, KeyProps(K1)), Merge("b", K2, FALSE, KeyProps(K2)),
             Rel("a", "CONTAINS", FALSE, "b")>>,
           KeyParams(StrV(n), StrV("/x.py"), IntV(l))) :
        K1 \in {"File", "Function", "Parameter"},
        K2 \in {"Function", "Class", "Module"}, n \in Names, l \in Lines}
    \cup
    \* a merge whose inline fields are those of another kind, alone or
    \* after a merge with the same inline block
    {Input(<<Merge("n", K, FALSE, KeyProps(K2))>>,
           KeyParams(StrV(n), StrV(p), IntV(l))) :
        K \in {"Function", "Parameter"}, K2 \in {"Function", "Parameter"},
        n \in Names, p \in Paths, l \in Lines}
    \cup
    {Input(<<Merge("a", K, FALSE, KeyProps(K)), Merge("b", K2, FALSE, KeyProps(K)),
             Rel("a", "HAS_PARAMETER", FALSE, "b")>>,
           KeyParams(StrV(n), StrV("/x.py"), IntV(l))) :
        K \in {"Function", "Parameter"}, K2 \in {"Function", "Parameter"},
        n \in Names, l \in Lines}
    \cup
    \* a key field bound to a list or a map, of strings that repr
    \* escapes or quotes differently among them
    {Input(<<Merge("n", "Function", FALSE, KeyProps("Function"))>>,
           KeyParams(v, StrV("/x.py"), IntV(10))) :
        v \in {ListV(<<StrV("py")>>), ListV(<<StrV("py"), IntV(1)>>),
               MapV(<<Item("a", IntV(1))>>), MapV(<<>>)}
              \cup {ListV(<<StrV(t)>>) : t \in QuotedTexts}
              \cup {MapV(<<Item(t, StrV(t))>>) : t \in QuotedTexts}}
    \cup
    \* an inline field whose name ends with that of a key field
    {Input(<<Merge("n", "Function", FALSE,
                   <<Prop(f, "name"), Prop("path", "path"),
                     Prop("line_number", "line_number")>>)>>,
           KeyParams(StrV(n), StrV("/x.py"), IntV(10))) :
        f \in {"full_call_name", "file_name", "names"}, n \in Names}
    \cup
    \* a further inline field before the key fields: a column of the
    \* table, or a name that ends with that of a key field
    {Input(<<Merge("n", "Function", FALSE,
                   <<Prop(f, "lang")>> \o KeyProps("Function"))>>,
           KeyParams(StrV(n), StrV("/x.py"), IntV(10)) @@ [lang |-> StrV("py")]) :
        f \in {"lang", "file_name"}, n \in Names}
    \cup
    \* two bulk merges in one statement
    {Input(<<Match("a", "Function", FALSE, <<>>), Match("b", "Class", FALSE, <<>>),
             SetAdd("a", p1), SetAdd(b, p2)>>,
           (p1 :> pm1) @@ (p2 :> pm2)) :
        p1 \in {"props"}, p2 \in {"props", "more", "props2"}, b \in {"a", "b"},
        pm1 \in PropMaps, pm2 \in PropMaps}
    \cup
    \* a bulk merge whose parameter the statement also returns
    {Input(<<Match("n", "Function", FALSE, <<>>), SetAdd("n", "props"), Ret("props")>>,
           [props |-> pm]) : pm \in PropMaps}
    \cup
    \* a bulk merge whose parameter is not supplied
    {Input(<<Match("n", "Function", FALSE, <<>>), SetAdd("n", "props")>>, extra) :
        extra \in ExtraParams}
    \cup
    \* parameters referenced or not
    {Input(<<Match("n", "", FALSE, <<>>), Ret("a")>>, params) :
        params \in {[a |-> IntV(1)], [a |-> IntV(1), b |-> IntV(2)]}}
    \cup
    \* label disjunctions
    {Input(<<Match("n", "", FALSE, <<>>), Match("m", "", FALSE, <<>>),
             Poly("WHERE", tests), RetVar("n")>>, EmptyParams) :
        tests \in TestSeqs}
    \cup
    \* a bulk merge after a label disjunction whose opening test is
    \* written v:L, v:`L` or label(v) = 'L'
    {Input(<<Match("n", "", FALSE, <<>>),
             Poly("WHERE", <<first, Test("n", "Function")>>),
             SetAdd("n", "props")>>, [props |-> RichProps]) :
        first \in {Test("n", "Class"),
                   [Test("n", "Class") EXCEPT !.tick = TRUE],
                   [Test("n", "Class") EXCEPT !.eq = TRUE]}}
    \cup
    \* single label tests
    {Input(<<Match(v, "", FALSE, <<>>), Pred(kw, v, l, tick), RetVar(v)>>, EmptyParams) :
        v \in Vars, kw \in {"WHERE", "AND", "OR"},
        l \in PolyLabels \cup {"Variable"}, tick \in BOOLEAN}
    \cup
    \* the remaining rewrites
    {Input(<<Match(v, "", FALSE, <<>>), RetLabels0(v)>>, EmptyParams) : v \in Vars}
    \cup
    {Input(<<RetCoalesce(up, "a")>>, [a |-> NullV]) : up \in BOOLEAN}
    \cup
    {Input(<<Ddl>>, params) : params \in {EmptyParams, [a |-> IntV(1)]}}
    \cup
    {Input(<<CreateTable("Function")>>, EmptyParams)}

---------------------------------------------------------------------------
(* The connection manager *)

\* Most close_driver calls.
MaxCloses == 1

Threads == {1, 2}

\* The node tables of _initialize_schema in creation order.
node_table_names ==
    <<"Repository", "File", "Directory", "Module", "Function", "Class",
      "Variable", "Trait", "Interface", "Macro", "Struct", "Enum", "Union",
      "Annotation", "Record", "Property", "Parameter">>

\* The relationship tables of _initialize_schema in creation order.
rel_table_names ==
    <<"CONTAINS", "CALLS", "IMPORTS", "INHERITS", "HAS_PARAMETER",
      "INCLUDES", "IMPLEMENTS">>

\* The node tables a relationship table is declared between.
rel_tables(rel) ==
    CASE rel = "CONTAINS" ->
            {"File", "Function", "Class", "Variable", "Trait", "Interface",
             "Macro", "Struct", "Enum", "Union", "Annotation", "Record",
             "Property", "Repository", "Directory"}
      [] rel = "CALLS" -> {"Function", "Class", "File"}
      [] rel = "IMPORTS" -> {"File", "Module"}
      [] rel = "INHERITS" -> {"Class", "Record", "Interface"}
      [] rel = "HAS_PARAMETER" -> {"Function", "Parameter"}
      [] rel = "INCLUDES" -> {"Class", "Module"}
      [] rel = "IMPLEMENTS" -> {"Class", "Interface", "Struct", "Record"}

\* The statements of the two loops of _initialize_schema in order.
BootstrapOrder == node_table_names \o rel_table_names

\* The class attributes before any call.
MgrInit ==
    /\ instance = 0
    /\ created = 0
    /\ lock = 0
    /\ db = 0
    /\ conn = 0
    /\ opens = 0
    /\ tables = {}
    /\ schemaDone = {}
    /\ closedHandles = {}
    /\ closes = 0
    /\ pc = [t \in Threads |-> "idle"]
    /\ mgr = [t \in Threads |-> 0]
    /\ idx = [t \in Threads |-> 0]
    /\ openedBy = [t \in Threads |-> 0]
    /\ closedDuring = [t \in Threads |-> FALSE]
    /\ driver = [t \in Threads |-> <<>>]
    /\ outcome = [t \in Threads |-> "none"]
    /\ connected = "unknown"

\* __new__, line 27: the unguarded test of _instance.
New_check1(t) ==
    /\ pc[t] = "idle"
    /\ pc' = [pc EXCEPT ![t] = IF instance = 0 THEN "new_lock" ELSE "new_ret"]
    /\ UNCHANGED <<instance, created, lock, db, conn, opens, tables,
                   schemaDone, closedHandles, closes, broken, mgr, idx,
                   openedBy, closedDuring, driver, outcome, connected>>
    /\ UNCHANGED <<sessVars, facVars, recVars, idxVars>>

\* __new__, line 28: with cls._lock.
New_lock(t) ==
    /\ pc[t] = "new_lock"
    /\ lock = 0
    /\ lock' = t
    /\ pc' = [pc EXCEPT ![t] = "new_check2"]
    /\ UNCHANGED <<instance, created, db, conn, opens, tables, schemaDone,
                   closedHandles, closes, broken, mgr, idx, openedBy,
                   closedDuring, driver, outcome, connected>>
    /\ UNCHANGED <<sessVars, facVars, recVars, idxVars>>

\* New_check2 without the test under the lock.
New_check2_Unguarded(t) ==
    /\ pc[t] = "new_check2"
    /\ instance' = created + 1
    /\ created' = created + 1
    /\ pc' = [pc EXCEPT ![t] = "new_unlock"]
    /\ UNCHANGED <<lock, db, conn, opens, tables, schemaDone, closedHandles,
                   closes, broken, mgr, idx, openedBy, closedDuring,
                   driver, outcome, connected>>
    /\ UNCHANGED <<sessVars, facVars, recVars, idxVars>>

\* __new__, lines 29-30: the test under the lock and the construction.
New_check2(t) ==
    /\ pc[t] = "new_check2"
    /\ IF instance = 0
       THEN instance' = created + 1 /\ created' = created + 1
       ELSE UNCHANGED <<instance, created>>
    /\ pc' = [pc EXCEPT ![t] = "new_unlock"]
    /\ UNCHANGED <<lock, db, conn, opens, tables, schemaDone, closedHandles,
                   closes, broken, mgr, idx, openedBy, closedDuring,
                   driver, outcome, connected>>
    /\ UNCHANGED <<sessVars, facVars, recVars, idxVars>>

\* __new__: leaving the with block.
New_unlock(t) ==
    /\ pc[t] = "new_unlock"
    /\ lock' = 0
    /\ pc' = [pc EXCEPT ![t] = "new_ret"]
    /\ UNCHANGED <<instance, created, db, conn, opens, tables, schemaDone,
                   closedHandles, closes, broken, mgr, idx, openedBy,
                   closedDuring, driver, outcome, connected>>
    /\ UNCHANGED <<sessVars, facVars, recVars, idxVars>>

\* __new__, line 31: return cls._instance.
New_ret(t) ==
    /\ pc[t] = "new_ret"
    /\ mgr' = [mgr EXCEPT ![t] = instance]
    /\ pc' = [pc EXCEPT ![t] = "idle"]
    /\ UNCHANGED <<instance, created, lock, db, conn, opens, tables,
                   schemaDone, closedHandles, closes, broken, idx,
                   openedBy, closedDuring, driver, outcome, connected>>
    /\ UNCHANGED <<sessVars, facVars, recVars, idxVars>>

\* get_driver, line 63: the unguarded test of _conn.
Gd_check1(t) ==
    /\ pc[t] = "idle"
    /\ mgr[t] # 0
    /\ pc' = [pc EXCEPT ![t] = IF conn = 0 THEN "gd_lock" ELSE "gd_ret"]
    /\ openedBy' = [openedBy EXCEPT ![t] = 0]
    /\ closedDuring' = [closedDuring EXCEPT ![t] = FALSE]
    /\ driver' = [driver EXCEPT ![t] = <<>>]
    /\ outcome' = [outcome EXCEPT ![t] = "none"]
    /\ UNCHANGED <<instance, created, lock, db, conn, opens, tables,
                   schemaDone, closedHandles, closes, broken, mgr, idx,
                   connected>>
    /\ UNCHANGED <<sessVars, facVars, recVars, idxVars>>

\* get_driver, line 64: with self._lock.
Gd_lock(t) ==
    /\ pc[t] = "gd_lock"
    /\ lock = 0
    /\ lock' = t
    /\ pc' = [pc EXCEPT ![t] = "gd_check2"]
    /\ UNCHANGED <<instance, created, db, conn, opens, tables, schemaDone,
                   closedHandles, closes, broken, mgr, idx, openedBy,
                   closedDuring, driver, outcome, connected>>
    /\ UNCHANGED <<sessVars, facVars, recVars, idxVars>>

\* get_driver, line 65: the test of _conn under the lock.
Gd_check2(t) ==
    /\ pc[t] = "gd_check2"
    /\ pc' = [pc EXCEPT ![t] = IF conn = 0 THEN "gd_import" ELSE "gd_unlock"]
    /\ UNCHANGED <<instance, created, lock, db, conn, opens, tables,
                   schemaDone, closedHandles, closes, broken, mgr, idx,
                   openedBy, closedDuring, driver, outcome, connected>>
    /\ UNCHANGED <<sessVars, facVars, recVars, idxVars>>

\* An exception leaves the with block and get_driver: the lock is
\* released and the caller gets the error.
Raise(t, error) ==
    /\ lock' = 0
    /\ outcome' = [outcome EXCEPT ![t] = error]
    /\ pc' = [pc EXCEPT ![t] = "idle"]

\* What import kuzu does: ModuleNotFoundError when the module cannot be
\* found; otherwise it succeeds or the package raises while it loads.
ImportOutcomes ==
    IF "kuzu" \notin installed THEN {"ModuleNotFoundError"}
    ELSE {"ok", "ImportError", "OSError", "KeyboardInterrupt"}

\* get_driver, lines 76-81, the handlers of the try of lines 66-75:
\* "except ImportError" raises ValueError in place of the exception,
\* "except Exception" logs and re-raises, and what is below BaseException
\* only passes both clauses.
Handled(t, e) ==
    IF IsSubclass(e, "ImportError") THEN Raise(t, "ValueError")
    ELSE Raise(t, "error")

\* What kuzu.Database and kuzu.Connection do: they succeed, or raise an
\* error of the engine, an ImportError of a module the package loads
\* late, or the interrupt of the process.
OpenOutcomes == {"ok", "RuntimeError", "ImportError", "KeyboardInterrupt"}

\* get_driver, lines 67 and 76-81: import kuzu.
Gd_import(t) ==
    /\ pc[t] = "gd_import"
    /\ \E e \in ImportOutcomes :
        IF e = "ok"
        THEN /\ pc' = [pc EXCEPT ![t] = "gd_db"]
             /\ UNCHANGED <<lock, outcome>>
        ELSE Handled(t, e)
    /\ UNCHANGED <<instance, created, db, conn, opens, tables, schemaDone,
                   closedHandles, closes, broken, mgr, idx, openedBy,
                   closedDuring, driver, connected>>
    /\ UNCHANGED <<sessVars, facVars, recVars, idxVars>>

\* get_driver, lines 69 and 76-81: self._db = kuzu.Database(self.db_path).
Gd_db(t) ==
    /\ pc[t] = "gd_db"
    /\ \E e \in OpenOutcomes :
        IF e = "ok"
        THEN /\ db' = opens + 1
             /\ pc' = [pc EXCEPT ![t] = "gd_conn"]
             /\ UNCHANGED <<lock, outcome>>
        ELSE Handled(t, e) /\ UNCHANGED db
    /\ UNCHANGED <<instance, created, conn, opens, tables, schemaDone,
                   closedHandles, closes, broken, mgr, idx, openedBy,
                   closedDuring, driver, connected>>
    /\ UNCHANGED <<sessVars, facVars, recVars, idxVars>>

\* Gd_conn caching the handle although the connection failed.
Gd_conn_CachesBroken(t) ==
    /\ pc[t] = "gd_conn"
    /\ \E e \in OpenOutcomes :
        IF e = "ok"
        THEN /\ conn' = opens + 1
             /\ opens' = opens + 1
             /\ openedBy' = [openedBy EXCEPT ![t] = opens + 1]
             /\ idx' = [idx EXCEPT ![t] = 1]
             /\ pc' = [pc EXCEPT ![t] = "gd_schema"]
             /\ UNCHANGED <<lock, outcome>>
        ELSE /\ Handled(t, e)
             /\ conn' = opens + 1
             /\ opens' = opens + 1
             /\ UNCHANGED <<openedBy, idx>>
    /\ UNCHANGED <<instance, created, db, tables, schemaDone, closedHandles,
                   closes, broken, mgr, closedDuring, driver, connected>>
    /\ UNCHANGED <<sessVars, facVars, recVars, idxVars>>

\* get_driver, lines 70 and 76-81: self._conn = kuzu.Connection(self._db).
Gd_conn(t) ==
    /\ pc[t] = "gd_conn"
    /\ \E e \in OpenOutcomes :
        IF e = "ok"
        THEN /\ conn' = opens + 1
             /\ opens' = opens + 1
             /\ openedBy' = [openedBy EXCEPT ![t] = opens + 1]
             /\ idx' = [idx EXCEPT ![t] = 1]
             /\ pc' = [pc EXCEPT ![t] = "gd_schema"]
             /\ UNCHANGED <<lock, outcome>>
        ELSE Handled(t, e) /\ UNCHANGED <<conn, opens, openedBy, idx>>
    /\ UNCHANGED <<instance, created, db, tables, schemaDone, closedHandles,
                   closes, broken, mgr, closedDuring, driver, connected>>
    /\ UNCHANGED <<sessVars, facVars, recVars, idxVars>>

\* A table whose creation raises an exception of class exc.
Broken(tb, exc) == [tb |-> tb, exc |-> exc]

\* What self._conn.execute("CREATE ... TABLE") can do to the tables: with
\* _conn cleared the call fails on None; an existing table gives "already
\* exists"; on a broken table the engine raises, and "except Exception"
\* (lines 125, 134) catches and prints what is below Exception and lets
\* the rest leave the bootstrap; a relationship table needs its node
\* tables; anything else succeeds.
CreateOutcome(tb) ==
    IF conn = 0 THEN "printed"
    ELSE IF tb \in tables THEN "absorbed"
    ELSE IF \E b \in broken : b.tb = tb /\ IsSubclass(b.exc, "Exception")
    THEN "printed"
    ELSE IF \E b \in broken : b.tb = tb THEN "escapes"
    ELSE IF tb \in Range(rel_table_names) /\ ~(rel_tables(tb) \subseteq tables)
    THEN "printed"
    ELSE "created"

\* _initialize_schema, lines 122-137: one pass of a loop; an exception
\* below Exception is caught, printed unless it says "already exists",
\* and the loop goes on; any other exception leaves _initialize_schema
\* and get_driver, the handle staying in _conn with its bootstrap
\* unfinished.  The last pass ends the bootstrap of the handle.
Gd_schema(t) ==
    /\ pc[t] = "gd_schema"
    /\ tables' = IF CreateOutcome(BootstrapOrder[idx[t]]) = "created"
                 THEN tables \cup {BootstrapOrder[idx[t]]} ELSE tables
    /\ IF CreateOutcome(BootstrapOrder[idx[t]]) = "escapes"
       THEN /\ Raise(t, "error")
            /\ idx' = [idx EXCEPT ![t] = 0]
            /\ UNCHANGED schemaDone
       ELSE IF idx[t] = Len(BootstrapOrder)
       THEN /\ schemaDone' = schemaDone \cup {openedBy[t]}
            /\ pc' = [pc EXCEPT ![t] = "gd_unlock"]
            /\ idx' = [idx EXCEPT ![t] = 0]
            /\ UNCHANGED <<lock, outcome>>
       ELSE /\ idx' = [idx EXCEPT ![t] = idx[t] + 1]
            /\ UNCHANGED <<schemaDone, pc, lock, outcome>>
    /\ UNCHANGED <<instance, created, db, conn, opens, closedHandles,
                   closes, broken, mgr, openedBy, closedDuring, driver,
                   connected>>
    /\ UNCHANGED <<sessVars, facVars, recVars, idxVars>>

\* get_driver: leaving the with block.
Gd_unlock(t) ==
    /\ pc[t] = "gd_unlock"
    /\ lock' = 0
    /\ pc' = [pc EXCEPT ![t] = "gd_ret"]
    /\ UNCHANGED <<instance, created, db, conn, opens, tables, schemaDone,
                   closedHandles, closes, broken, mgr, idx, openedBy,
                   closedDuring, driver, outcome, connected>>
    /\ UNCHANGED <<sessVars, facVars, recVars, idxVars>>

\* get_driver, line 83: return KuzuDriverWrapper(self._conn).
Gd_ret(t) ==
    /\ pc[t] = "gd_ret"
    /\ driver' = [driver EXCEPT ![t] = <<conn>>]
    /\ outcome' = [outcome EXCEPT ![t] = "returned"]
    /\ pc' = [pc EXCEPT ![t] = "idle"]
    /\ UNCHANGED <<instance, created, lock, db, conn, opens, tables,
                   schemaDone, closedHandles, closes, broken, mgr, idx,
                   openedBy, closedDuring, connected>>
    /\ UNCHANGED <<sessVars, facVars, recVars, idxVars>>

\* Close_conn leaving _conn as it is.
Close_conn_KeepsHandle(t) ==
    /\ pc[t] = "idle"
    /\ mgr[t] # 0
    /\ closes < MaxCloses
    /\ closes' = closes + 1
    /\ closedHandles' = closedHandles \cup ({conn} \ {0})
    /\ pc' = [pc EXCEPT ![t] = "cl_db"]
    /\ UNCHANGED <<instance, created, lock, db, conn, opens, tables,
                   schemaDone, broken, mgr, idx, openedBy, closedDuring,
                   driver, outcome, connected>>
    /\ UNCHANGED <<sessVars, facVars, recVars, idxVars>>

\* close_driver, line 141: self._conn = None.
Close_conn(t) ==
    /\ pc[t] = "idle"
    /\ mgr[t] # 0
    /\ closes < MaxCloses
    /\ closes' = closes + 1
    /\ conn' = 0
    /\ closedHandles' = closedHandles \cup ({conn} \ {0})
    /\ closedDuring' =
            [u \in Threads |->
                closedDuring[u] \/ pc[u] \in {"gd_lock", "gd_check2",
                    "gd_import", "gd_db", "gd_conn", "gd_schema",
                    "gd_unlock", "gd_ret"}]
    /\ pc' = [pc EXCEPT ![t] = "cl_db"]
    /\ UNCHANGED <<instance, created, lock, db, opens, tables, schemaDone,
                   broken, mgr, idx, openedBy, driver, outcome, connected>>
    /\ UNCHANGED <<sessVars, facVars, recVars, idxVars>>

\* close_driver, line 142: self._db = None.
Close_db(t) ==
    /\ pc[t] = "cl_db"
    /\ db' = 0
    /\ pc' = [pc EXCEPT ![t] = "idle"]
    /\ UNCHANGED <<instance, created, lock, conn, opens, tables, schemaDone,
                   closedHandles, closes, broken, mgr, idx, openedBy,
                   closedDuring, driver, outcome, connected>>
    /\ UNCHANGED <<sessVars, facVars, recVars, idxVars>>

\* is_connected, lines 144-152: no handle gives False; otherwise the probe
\* statement RETURN 1 succeeds, or raises: "except Exception" gives False
\* for what is below Exception, and any other exception leaves
\* is_connected, which then returns nothing.
Is_connected(t) ==
    /\ pc[t] = "idle"
    /\ mgr[t] # 0
    /\ \E probe \in {"ok", "RuntimeError", "KeyboardInterrupt"} :
        connected' = IF conn = 0 THEN "no"
                     ELSE IF probe = "ok" THEN "yes"
                     ELSE IF IsSubclass(probe, "Exception") THEN "no"
                     ELSE "raised"
    /\ UNCHANGED <<instance, created, lock, db, conn, opens, tables,
                   schemaDone, closedHandles, closes, broken, pc, mgr, idx,
                   openedBy, closedDuring, driver, outcome>>
    /\ UNCHANGED <<sessVars, facVars, recVars, idxVars>>

---------------------------------------------------------------------------
(* The backend factory *)

\* Strings hold characters up to U+00FF (Basic Latin and Latin-1
\* Supplement).  The characters among them that str.lower() changes, and
\* at the same place in LowerLetters what it changes each into.
UpperLetters ==
    "ABCDEFGHIJKLMNOPQRSTUVWXYZÀÁÂÃÄÅÆÇÈÉÊËÌÍ" \o
    "ÎÏÐÑÒÓÔÕÖØÙÚÛÜÝÞ"

LowerLetters ==
    "abcdefghijklmnopqrstuvwxyzàáâãäåæçèéêëìí" \o
    "îïðñòóôõöøùúûüýþ"

\* str.lower() of each character it changes.
LowerCase ==
    [c \in {SubSeq(UpperLetters, i, i) : i \in 1..Len(UpperLetters)} |->
        LET i == CHOOSE k \in 1..Len(UpperLetters) : SubSeq(UpperLetters, k, k) = c
        IN SubSeq(LowerLetters, i, i)]

\* str.lower() of a string of such characters.
RECURSIVE Lower(_)
Lower(word) ==
    IF word = "" THEN ""
    ELSE (IF SubSeq(word, 1, 1) \in DOMAIN LowerCase
          THEN LowerCase[SubSeq(word, 1, 1)] ELSE SubSeq(word, 1, 1))
            \o Lower(SubSeq(word, 2, Len(word)))

\* sub in s
HasSubstring(s, sub) ==
    \E i \in 1..(Len(s) - Len(sub) + 1) : SubSeq(s, i, i + Len(sub) - 1) = sub

\* os.getenv(name): None when the variable is not set.
getenv(env, name) == IF name \in DOMAIN env THEN StrV(env[name]) ELSE NullV

\* Python truth of what os.getenv returns.
Truthy(v) == v.ty = "str" /\ v.s # ""

\* _is_kuzudb_available
is_kuzudb_available(mods) == "kuzu" \in mods

\* _is_falkordb_available
is_falkordb_available(sys, new, mods) ==
    IF sys = "Windows" THEN FALSE
    ELSE IF ~new THEN FALSE
    ELSE "redislite" \in mods

\* _is_neo4j_configured
is_neo4j_configured(env) ==
    \A name \in {"NEO4J_URI", "NEO4J_USERNAME", "NEO4J_PASSWORD"} :
        Truthy(getenv(env, name))

\* db_type with DATABASE_TYPE read first.
db_type_LegacyFirst(env) ==
    IF Truthy(getenv(env, "DATABASE_TYPE")) THEN getenv(env, "DATABASE_TYPE")
    ELSE IF Truthy(getenv(env, "DEFAULT_DATABASE"))
    THEN getenv(env, "DEFAULT_DATABASE")
    ELSE getenv(env, "CGC_RUNTIME_DB_TYPE")

\* get_database_manager, lines 61-65: the configured backend name.
db_type(env) ==
    IF Truthy(getenv(env, "CGC_RUNTIME_DB_TYPE"))
    THEN getenv(env, "CGC_RUNTIME_DB_TYPE")
    ELSE IF Truthy(getenv(env, "DEFAULT_DATABASE"))
    THEN getenv(env, "DEFAULT_DATABASE")
    ELSE getenv(env, "DATABASE_TYPE")

Manager(name) == [kind |-> "manager", name |-> name]
ValueError == [kind |-> "ValueError", name |-> ""]
NoBackend == [kind |-> "none", name |-> ""]

\* get_database_manager
get_database_manager(env, sys, new, mods) ==
    IF Truthy(db_type(env))
    THEN
      CASE Lower(db_type(env).s) = "kuzudb" ->
              IF ~is_kuzudb_available(mods) THEN ValueError
              ELSE Manager("kuzudb")
        [] Lower(db_type(env).s) = "falkordb" ->
              IF ~is_falkordb_available(sys, new, mods) THEN ValueError
              ELSE Manager("falkordb")
        [] Lower(db_type(env).s) = "neo4j" ->
              IF ~is_neo4j_configured(env) THEN ValueError
              ELSE Manager("neo4j")
        [] OTHER -> ValueError
    ELSE IF is_kuzudb_available(mods) THEN Manager("kuzudb")
    ELSE IF is_falkordb_available(sys, new, mods) THEN Manager("falkordb")
    ELSE IF is_neo4j_configured(env) THEN Manager("neo4j")
    ELSE ValueError

\* Values a backend variable may be set to.
TypeValues ==
    {"", "kuzudb", "KuzuDB", "KUZUDB", "falkordb", "NEO4J", "Neo4j", "MySQL",
     "KÙZUDB"}

\* The three backend variables, each set or not.
TypeEnvs ==
    UNION {[names -> TypeValues] :
            names \in SUBSET {"CGC_RUNTIME_DB_TYPE", "DEFAULT_DATABASE",
                              "DATABASE_TYPE"}}

\* The server credentials: all set, one empty, or one missing.
Neo4jEnvs ==
    {[NEO4J_URI |-> "bolt://h", NEO4J_USERNAME |-> "u", NEO4J_PASSWORD |-> "p"],
     [NEO4J_URI |-> "bolt://h", NEO4J_USERNAME |-> "u", NEO4J_PASSWORD |-> ""],
     [NEO4J_USERNAME |-> "u", NEO4J_PASSWORD |-> "p"],
     [x \in {} |-> ""]}

\* Before the factory is called.
FacInit ==
    /\ environ = [x \in {} |-> ""]
    /\ system = "Linux"
    /\ py312 = TRUE
    /\ installed = {}
    /\ backend = NoBackend
    /\ facpc = "idle"

\* The thread that calls the factory, another than the manager's threads.
Caller == Cardinality(Threads) + 1

\* get_database_manager (lines 46-118) up to what it returns: ValueError
\* and the other managers are given at once; for KuzuDB the call goes on
\* into KuzuDBManager() (lines 75, 96), whose __new__ the steps below
\* follow line by line, steps of other threads in between.
GetManager ==
    /\ backend = NoBackend
    /\ facpc = "idle"
    /\ IF get_database_manager(environ, system, py312, installed)
            = Manager("kuzudb")
       THEN facpc' = "new_check1" /\ UNCHANGED backend
       ELSE /\ backend' =
                get_database_manager(environ, system, py312, installed)
            /\ UNCHANGED facpc
    /\ UNCHANGED <<environ, system, py312, installed>>
    /\ UNCHANGED <<sessVars, mgrVars, recVars, idxVars>>

\* __new__ in the factory's call, line 27: the unguarded test of _instance.
Fac_check1 ==
    /\ facpc = "new_check1"
    /\ facpc' = IF instance = 0 THEN "new_lock" ELSE "new_ret"
    /\ UNCHANGED <<environ, system, py312, installed, backend>>
    /\ UNCHANGED <<sessVars, mgrVars, recVars, idxVars>>

\* __new__ in the factory's call, line 28: with cls._lock, waited for
\* while another thread holds it.
Fac_lock ==
    /\ facpc = "new_lock"
    /\ lock = 0
    /\ lock' = Caller
    /\ facpc' = "new_check2"
    /\ UNCHANGED <<environ, system, py312, installed, backend>>
    /\ UNCHANGED <<instance, created, db, conn, opens, tables, schemaDone,
                   closedHandles, closes, broken, pc, mgr, idx, openedBy,
                   closedDuring, driver, outcome, connected>>
    /\ UNCHANGED <<sessVars, recVars, idxVars>>

\* __new__ in the factory's call, lines 29-30: the test under the lock
\* and the construction.
Fac_check2 ==
    /\ facpc = "new_check2"
    /\ IF instance = 0
       THEN instance' = created + 1 /\ created' = created + 1
       ELSE UNCHANGED <<instance, created>>
    /\ facpc' = "new_unlock"
    /\ UNCHANGED <<environ, system, py312, installed, backend>>
    /\ UNCHANGED <<lock, db, conn, opens, tables, schemaDone, closedHandles,
                   closes, broken, pc, mgr, idx, openedBy, closedDuring,
                   driver, outcome, connected>>
    /\ UNCHANGED <<sessVars, recVars, idxVars>>

\* __new__ in the factory's call: leaving the with block.
Fac_unlock ==
    /\ facpc = "new_unlock"
    /\ lock' = 0
    /\ facpc' = "new_ret"
    /\ UNCHANGED <<environ, system, py312, installed, backend>>
    /\ UNCHANGED <<instance, created, db, conn, opens, tables, schemaDone,
                   closedHandles, closes, broken, pc, mgr, idx, openedBy,
                   closedDuring, driver, outcome, connected>>
    /\ UNCHANGED <<sessVars, recVars, idxVars>>

\* __new__, line 31, and the return of get_database_manager (lines 75,
\* 96): the caller has the manager.
Fac_ret ==
    /\ facpc = "new_ret"
    /\ backend' = Manager("kuzudb")
    /\ facpc' = "idle"
    /\ UNCHANGED <<environ, system, py312, installed>>
    /\ UNCHANGED <<sessVars, mgrVars, recVars, idxVars>>

---------------------------------------------------------------------------
(* Result records *)

\* Most columns and most rows of a native result.
MaxCols == 2
MaxRows == 2

\* A node or relationship object of the engine, by object identity.
NodeRef(oid) == [ty |-> "node", oid |-> oid]

\* An attribute an object does not have: hasattr(val, a) is False.
Absent == [ty |-> "absent"]

\* The attributes data_raw tests and sets.
AttrNames == {"labels", "id", "properties", "type", "src_node", "dest_node"}

\* dict.get(k, default) on a dict held as a function.
Get(d, k, default) == IF k \in DOMAIN d THEN d[k] ELSE default

\* A native handle: the name of its class and of the module that defines
\* it (kuzu unless said otherwise), what get_label_name and
\* get_properties give, the offsets get_src_id and get_dst_id give, the
\* methods that raise when called and the class of what they raise, its
\* address id(val), and the attributes it has.
Handle(cls, label, props, raises, error, addr, preset) ==
    [cls |-> cls, mod |-> "kuzu", label |-> label, props |-> props,
     src |-> 3, dst |-> 4,
     raises |-> raises, error |-> error, addr |-> addr,
     attrs |-> [a \in AttrNames |->
                    IF a \in preset THEN StrV("preset") ELSE Absent]]

\* str(id(val)): where the interpreter put the object.
Addresses == {"140201", "140202"}

\* Stored nodes as the engine hands them out: the label and the columns of
\* the node's table (lines 91-110) that have a value.
StoredNodes ==
    {[label |-> "Function",
      props |-> ("uid" :> StrV("foo/x.py10")) @@ ("name" :> StrV("foo"))
                    @@ ("path" :> StrV("/x.py"))],
     [label |-> "Repository",
      props |-> ("path" :> StrV("/repo")) @@ ("name" :> StrV("repo"))],
     [label |-> "File",
      props |-> ("path" :> StrV("/x.py")) @@ ("name" :> StrV("x.py"))],
     [label |-> "Directory",
      props |-> ("path" :> StrV("/d")) @@ ("name" :> StrV("d"))],
     [label |-> "Module",
      props |-> ("name" :> StrV("os")) @@ ("lang" :> StrV("python"))]}

\* What a method of a handle raises: classes below Exception, and
\* KeyboardInterrupt and a class defined below it, which are below
\* BaseException only.
ErrorClasses ==
    {"RuntimeError", "ValueError", "IndexError", "KeyboardInterrupt",
     "MyInterrupt"}

\* The handles a result can hold: node handles, with or without an id of
\* their own and with a method that raises, and relationship handles.
Handles ==
    {Handle("Node", n.label, n.props, {}, "", addr, preset) :
        n \in StoredNodes, addr \in Addresses, preset \in {{}, {"id"}}}
    \cup {Handle("Node", n.label, n.props, {m}, e, "140201", {}) :
            n \in {s \in StoredNodes : s.label \in {"Function", "File"}},
            m \in {"get_label_name", "get_properties"},
            e \in ErrorClasses}
    \cup {Handle("Rel", "CALLS", ("line_number" :> IntV(1)), {}, "", addr, {}) :
            addr \in Addresses}
    \cup {Handle("Rel", "CALLS", ("line_number" :> IntV(1)), {m}, e,
                 "140201", {}) :
            m \in {"get_src_id", "get_properties"}, e \in ErrorClasses}
    \* objects of other classes: names that hold the text Node or Rel, a
    \* module whose name does, and a class with neither
    \cup {Handle(c, "File",
                 ("path" :> StrV("/x.py")) @@ ("name" :> StrV("x.py")),
                 raises, IF raises = {} THEN "" ELSE "RuntimeError",
                 "140201", {}) :
            c \in {"NodeX", "RelNode", "RecursiveRel", "Other"},
            raises \in {{}, {"get_label_name"}}}
    \cup {[Handle("Thing", "File",
                  ("path" :> StrV("/x.py")) @@ ("name" :> StrV("x.py")),
                  {}, "", "140201", {}) EXCEPT !.mod = "RelTools"]}

\* The handle of a result without introspection failures.
PlainHandle ==
    Handle("Node", "File",
           ("path" :> StrV("/x.py")) @@ ("name" :> StrV("x.py")), {}, "",
           "140201", {})

ColumnNames == {"n", "n.name", "c"}
CellValues == {StrV("x"), NodeRef(1)}

\* Sequences of at most n elements of S.
SeqsUpTo(S, n) == UNION {[1..k -> S] : k \in 0..n}

\* The native results: the column names of a result are distinct, and
\* every row has one cell per column; next is the row get_next gives
\* next, has_next being next <= Len(rows).
NativeResults ==
    UNION {{[none |-> FALSE, cols |-> cols, rows |-> rows, next |-> 1] :
                rows \in SeqsUpTo([DOMAIN cols -> CellValues], MaxRows)} :
            cols \in {c \in SeqsUpTo(ColumnNames, MaxCols) :
                        \A i, j \in DOMAIN c : c[i] = c[j] => i = j}}

\* KuzuResultWrapper(None), made when run swallows an error.
NoResult == [none |-> TRUE, cols |-> <<>>, rows |-> <<>>, next |-> 1]

\* record[k] = v on a dict held as its items in insertion order.
DictSet(d, k, v) ==
    IF \E i \in DOMAIN d : d[i].k = k
    THEN [i \in DOMAIN d |-> IF d[i].k = k THEN [k |-> k, v |-> v] ELSE d[i]]
    ELSE Append(d, [k |-> k, v |-> v])

\* data_raw, lines 417-445, on one row: the dict of the row.
RECURSIVE RowDict(_, _, _)
RowDict(cols, row, i) ==
    IF i = 0 THEN <<>>
    ELSE DictSet(RowDict(cols, row, i - 1), cols[i], row[i])

\* hasattr(val, a)
HasAttr(h, a) == h.attrs[a] # Absent

\* One "if not hasattr(val, a): val.a = val.method()..." of the try block,
\* on st = the handle so far and the exception raised so far ("" for
\* none): skipped after a raise, raising when the method raises.
BackfillStep(st, a, method, value) ==
    IF st.exc # "" \/ HasAttr(st.h, a) THEN st
    ELSE IF method \in st.h.raises THEN [st EXCEPT !.exc = st.h.error]
    ELSE [st EXCEPT !.h.attrs[a] = value]

\* Line 428: props.get('uid', props.get('path', str(id(val))))
node_id(h) == Get(h.props, "uid", Get(h.props, "path", StrV(h.addr)))

\* data_raw, lines 422-430: the try block on a Node object.
ProcessNode(h) ==
    BackfillStep(
        BackfillStep(
            BackfillStep([h |-> h, exc |-> ""],
                         "labels", "get_label_name", ListV(<<StrV(h.label)>>)),
            "id", "get_properties", node_id(h)),
        "properties", "get_properties", MapV(h.props))

\* data_raw, lines 432-441: the try block on a Rel object.
ProcessRel(h) ==
    BackfillStep(
        BackfillStep(
            BackfillStep(
                BackfillStep([h |-> h, exc |-> ""],
                             "type", "get_label_name", StrV(h.label)),
                "src_node", "get_src_id", IntV(h.src)),
            "dest_node", "get_dst_id", IntV(h.dst)),
        "properties", "get_properties", MapV(h.props))

\* str(val.__class__)
ClassText(h) == "<class '" \o h.mod \o "." \o h.cls \o "'>"

\* data_raw, lines 420-441: the try block on one value; the class is
\* tested by the text Node, then Rel, anywhere in str(val.__class__).
Process(h) ==
    IF HasSubstring(ClassText(h), "Node") THEN ProcessNode(h)
    ELSE IF HasSubstring(ClassText(h), "Rel") THEN ProcessRel(h)
    ELSE [h |-> h, exc |-> ""]

\* "except Exception"  with a tuple of two classes in its place.
Caught_LookupOnly(exc) == exc \in {"KeyError", "AttributeError"}

\* Line 442, "except Exception": the classes below Exception.
Caught(exc) ==
    IsSubclass(exc, "Exception")

\* The objects the cells of a result refer to.
Referenced(res, hp) ==
    {o \in DOMAIN hp :
        \E r \in DOMAIN res.rows : \E i \in DOMAIN res.cols :
            res.rows[r][i] = NodeRef(o)}

\* The rows has_next and get_next have yet to give.
Remaining(res) == SubSeq(res.rows, res.next, Len(res.rows))

\* data_raw, lines 414-446, over the rows not yet read: the row and
\* column at which an exception leaves the try block, <<0, 0>> when none
\* does.
Escaping(res, hp) ==
    LET bad == {c \in (res.next..Len(res.rows)) \X DOMAIN res.cols :
                    \E o \in DOMAIN hp :
                        /\ res.rows[c[1]][c[2]] = NodeRef(o)
                        /\ Process(hp[o]).exc # ""
                        /\ ~Caught(Process(hp[o]).exc)}
    IN IF bad = {} THEN <<0, 0>>
       ELSE CHOOSE c \in bad :
                \A d \in bad : c[1] < d[1] \/ (c[1] = d[1] /\ c[2] <= d[2])

\* data_raw on a call that raises nothing: the list of the dicts of the
\* rows not yet read.
data_raw(res) ==
    IF res.none THEN <<>>
    ELSE [r \in DOMAIN Remaining(res) |->
            RowDict(res.cols, Remaining(res)[r], Len(res.cols))]

\* One call of data_raw: the list it returns or the class of the
\* exception that leaves it, the native result after the call, read to
\* its end or to the row that raised, and the objects after the call,
\* those of the cells read having been through the try block.
Read(res, hp) ==
    LET esc == Escaping(res, hp)
        seen(o) ==
            \E c \in (res.next..Len(res.rows)) \X DOMAIN res.cols :
                /\ res.rows[c[1]][c[2]] = NodeRef(o)
                /\ \/ esc = <<0, 0>>
                   \/ c[1] < esc[1]
                   \/ c[1] = esc[1] /\ c[2] <= esc[2]
    IN [rows |-> IF esc = <<0, 0>> THEN data_raw(res) ELSE <<>>,
        exc |-> IF esc = <<0, 0>> THEN ""
                ELSE Process(hp[res.rows[esc[1]][esc[2]].oid]).exc,
        result |-> IF res.none THEN res
                   ELSE [res EXCEPT !.next = IF esc = <<0, 0>>
                                             THEN Len(res.rows) + 1
                                             ELSE esc[1] + 1],
        heap |-> [o \in DOMAIN hp |->
                    IF seen(o) THEN Process(hp[o]).h ELSE hp[o]]]

\* KuzuRecord.__init__
KuzuRecord(data_dict) ==
    [data |-> data_dict, keys |-> [i \in DOMAIN data_dict |-> data_dict[i].k]]

\* dict[key]
DictGet(d, k) ==
    IF \E i \in DOMAIN d : d[i].k = k
    THEN [ok |-> TRUE, v |-> d[CHOOSE i \in DOMAIN d : d[i].k = k].v, err |-> ""]
    ELSE [ok |-> FALSE, v |-> NullV, err |-> "KeyError"]

\* An index or a name given to record[...].
IntKey(i) == [int |-> TRUE, i |-> i, name |-> ""]
NameKey(name) == [int |-> FALSE, i |-> 0, name |-> name]

\* __getitem__ with list indexing in place of the range test.
getitem_ListIndex(rec, k) ==
    IF k.int
    THEN IF k.i < Len(rec.keys) /\ k.i >= 0 - Len(rec.keys)
         THEN DictGet(rec.data,
                      rec.keys[(IF k.i < 0 THEN k.i + Len(rec.keys) ELSE k.i) + 1])
         ELSE [ok |-> FALSE, v |-> NullV, err |-> "IndexError"]
    ELSE DictGet(rec.data, k.name)

\* KuzuRecord.__getitem__
getitem(rec, k) ==
    IF k.int
    THEN IF 0 <= k.i /\ k.i < Len(rec.keys)
         THEN DictGet(rec.data, rec.keys[k.i + 1])
         ELSE [ok |-> FALSE, v |-> NullV, err |-> "IndexError"]
    ELSE DictGet(rec.data, k.name)

NoKey == [rec |-> 0, k |-> NameKey("")]
Nothing == [ok |-> FALSE, v |-> NullV, err |-> ""]
NoAnswer == [op |-> "", v |-> <<>>]

\* What a caller sees of a call that raised exc, or that raised nothing.
Raised(exc) == IF exc = "" THEN Nothing ELSE [ok |-> FALSE, v |-> NullV, err |-> exc]

\* Before any result is read.
RecInit ==
    /\ heap = [o \in {1} |-> PlainHandle]
    /\ result = NoResult
    /\ records = <<>>
    /\ answer = NoAnswer
    /\ key = NoKey
    /\ got = Nothing

\* list(wrapper), KuzuResultWrapper.__iter__: data_raw, then a KuzuRecord
\* per row; the native result is left read to its end, so a second
\* list(wrapper) gives no record.  An exception that leaves data_raw
\* leaves __iter__ and no record is made.  The caller keeps what its
\* last read returned.
Iterate ==
    /\ \E rd \in {Read(result, heap)} :
        /\ records' = [r \in DOMAIN rd.rows |-> KuzuRecord(rd.rows[r])]
        /\ got' = Raised(rd.exc)
        /\ result' = rd.result
        /\ heap' = rd.heap
    /\ answer' = NoAnswer
    /\ key' = NoKey
    /\ UNCHANGED <<sessVars, mgrVars, facVars, idxVars>>

\* KuzuResultWrapper.single: data_raw, then the KuzuRecord of the first
\* row, None (no record) when data_raw gave no row.
Single ==
    /\ \E rd \in {Read(result, heap)} :
        /\ answer' = IF rd.exc # "" THEN NoAnswer
                     ELSE [op |-> "single",
                           v |-> IF rd.rows = <<>> THEN <<>>
                                 ELSE <<KuzuRecord(rd.rows[1])>>]
        /\ got' = Raised(rd.exc)
        /\ result' = rd.result
        /\ heap' = rd.heap
    /\ records' = <<>>
    /\ key' = NoKey
    /\ UNCHANGED <<sessVars, mgrVars, facVars, idxVars>>

\* KuzuResultWrapper.data: the list data_raw returns.
Data ==
    /\ \E rd \in {Read(result, heap)} :
        /\ answer' = IF rd.exc # "" THEN NoAnswer
                     ELSE [op |-> "data", v |-> rd.rows]
        /\ got' = Raised(rd.exc)
        /\ result' = rd.result
        /\ heap' = rd.heap
    /\ records' = <<>>
    /\ key' = NoKey
    /\ UNCHANGED <<sessVars, mgrVars, facVars, idxVars>>

\* record[k] on one of the records of the last list(wrapper).
GetItem ==
    /\ records # <<>>
    /\ \E r \in DOMAIN records :
       \E k \in {IntKey(i) : i \in (0 - MaxCols - 1)..(MaxCols + 1)}
                    \cup {NameKey(c) : c \in ColumnNames} :
        /\ key' = [rec |-> r, k |-> k]
        /\ got' = getitem(records[r], k)
    /\ UNCHANGED <<heap, result, records, answer>>
    /\ UNCHANGED <<sessVars, mgrVars, facVars, idxVars>>

---------------------------------------------------------------------------
(* The hybrid indexer *)
(* (src/src/codegraphcontext/indexers/hybrid_indexer.py).  A project is   *)
(* what the file system says of the project root; tools says what the     *)
(* SCIP availability probe, SCIPIndexer.index and TreeSitterIndexer.index *)
(* do when called: "ok" or the class of the exception they raise.         *)

\* IndexerType values.
SCIP == "scip"
TREE_SITTER == "tree-sitter"

\* _is_python_project, lines 136-142
python_markers ==
    {"pyproject.toml", "setup.py", "requirements.txt", "Pipfile", "poetry.lock"}

\* BaseIndexer.validate_project
validate_project(p) == p.exists /\ p.is_dir

\* _is_python_project: a marker in the root, or a .py file below it.
is_python_project(p) == (p.entries \cap python_markers # {}) \/ p.py_files

\* SCIPIndexer.is_available: False when npx answers non-zero, is missing
\* or times out; any other exception of the probe leaves it.
scip_is_available(t) ==
    IF t.probe = "ok" THEN [v |-> TRUE, exc |-> ""]
    ELSE IF t.probe \in {"nonzero", "TimeoutExpired", "FileNotFoundError"}
    THEN [v |-> FALSE, exc |-> ""]
    ELSE [v |-> FALSE, exc |-> t.probe]

\* _choose_indexer
choose_indexer(p, t) ==
    IF ~is_python_project(p) THEN [v |-> TREE_SITTER, exc |-> ""]
    ELSE IF scip_is_available(t).exc # ""
    THEN [v |-> "", exc |-> scip_is_available(t).exc]
    ELSE IF ~scip_is_available(t).v THEN [v |-> TREE_SITTER, exc |-> ""]
    ELSE [v |-> SCIP, exc |-> ""]

\* _index_with_tree_sitter, after the indexers in before have run.
index_with_tree_sitter(t, before) ==
    IF t.ts = "ok"
    THEN [ran |-> Append(before, TREE_SITTER), ret |-> TREE_SITTER, exc |-> ""]
    ELSE [ran |-> Append(before, TREE_SITTER), ret |-> "", exc |-> t.ts]

\* "except Exception" with RuntimeError in its place.
Fallback_RuntimeOnly(exc) == exc = "RuntimeError"

\* _index_with_scip, line 171: "except Exception", the classes below
\* Exception.
Fallback(exc) ==
    IsSubclass(exc, "Exception")

\* _index_with_scip
index_with_scip(t) ==
    IF t.scip = "ok"
    THEN [ran |-> <<SCIP>>, ret |-> SCIP, exc |-> ""]
    ELSE IF Fallback(t.scip) THEN index_with_tree_sitter(t, <<SCIP>>)
    ELSE [ran |-> <<SCIP>>, ret |-> "", exc |-> t.scip]

\* What index gives: the indexer type of the IndexResult it returns, or
\* the class of the exception it raises.
NotCalled == [ret |-> "", exc |-> "", called |-> FALSE]
Outcome(r) == [ret |-> r.ret, exc |-> r.exc, called |-> TRUE]

\* HybridIndexer.index: what was chosen, what ran and what came back.
index(p, t) ==
    IF ~validate_project(p)
    THEN [chosen |-> "", ran |-> <<>>, ret |-> "", exc |-> "ValueError"]
    ELSE IF choose_indexer(p, t).exc # ""
    THEN [chosen |-> "", ran |-> <<>>, ret |-> "",
          exc |-> choose_indexer(p, t).exc]
    ELSE IF choose_indexer(p, t).v = SCIP
    THEN [chosen |-> SCIP] @@ index_with_scip(t)
    ELSE [chosen |-> TREE_SITTER] @@ index_with_tree_sitter(t, <<>>)

\* The project roots and the tools a HybridIndexer can meet.
Projects ==
    {[exists |-> e, is_dir |-> d, entries |-> m, py_files |-> f] :
        e \in BOOLEAN, d \in BOOLEAN, m \in SUBSET python_markers,
        f \in BOOLEAN}
    \ {p \in [exists : {FALSE}, is_dir : {TRUE},
               entries : SUBSET python_markers, py_files : BOOLEAN] : TRUE}

Tools ==
    [probe : {"ok", "nonzero", "TimeoutExpired", "FileNotFoundError",
              "PermissionError"},
     scip : {"ok", "ValueError", "RuntimeError", "OSError", "KeyError",
             "AttributeError", "TypeError", "IndexError",
             "KeyboardInterrupt", "SystemExit", "Abort", "MyInterrupt"},
     ts : {"ok", "RuntimeError"}]

NoProject ==
    [exists |-> FALSE, is_dir |-> FALSE, entries |-> {}, py_files |-> FALSE]
NoTools == [probe |-> "nonzero", scip |-> "ok", ts |-> "ok"]

\* SCIPIndexer, not yet given data.
NoData == [documents |-> <<>>]

IdxInit ==
    /\ project = NoProject
    /\ tools = NoTools
    /\ chosen = ""
    /\ ran = <<>>
    /\ returned = NotCalled
    /\ scip_data = NoData
    /\ symbols = <<>>

\* HybridIndexer.index
Index ==
    /\ ~returned.called
    /\ \E r \in {index(project, tools)} :
        /\ chosen' = r.chosen
        /\ ran' = r.ran
        /\ returned' = Outcome(r)
    /\ UNCHANGED <<project, tools, scip_data, symbols>>
    /\ UNCHANGED <<sessVars, mgrVars, facVars, recVars>>

---------------------------------------------------------------------------
(* The SCIP conversion *)
(* (src/src/codegraphcontext/indexers/scip_indexer.py).  A string is the  *)
(* sequence of its tokens: each of the characters space, backtick, "#",  *)
(* ".", "(" is a token (the backtick is written "BACKTICK"), and so is    *)
(* each run of other characters between them.                             *)

MaxEntries == 2

\* str.split(sep) on a tokenised string, from token i on, cur being the
\* piece read so far.
RECURSIVE SplitFrom(_, _, _, _)
SplitFrom(str, sep, i, cur) ==
    IF i > Len(str) THEN <<cur>>
    ELSE IF str[i] = sep THEN <<cur>> \o SplitFrom(str, sep, i + 1, <<>>)
    ELSE SplitFrom(str, sep, i + 1, Append(cur, str[i]))

Split(str, sep) == SplitFrom(str, sep, 1, <<>>)

\* sep in str
Contains(str, sep) == \E i \in DOMAIN str : str[i] = sep

\* str.split(sep, 1)[1]: what follows the first sep.
AfterFirst(str, sep) ==
    SubSeq(str, (CHOOSE i \in DOMAIN str :
                    str[i] = sep /\ \A j \in 1..(i - 1) : str[j] # sep) + 1,
           Len(str))

Last(seq) == seq[Len(seq)]

\* _parse_symbol, lines 395-406: the part of the symbol string that names
\* the symbol.
symbol_part(symbol_str) ==
    IF Len(Split(symbol_str, " ")) < 3 THEN symbol_str
    ELSE IF Contains(Last(Split(symbol_str, " ")), "BACKTICK")
    THEN AfterFirst(Last(Split(symbol_str, " ")), "BACKTICK")
    ELSE Last(Split(symbol_str, " "))

\* _parse_symbol, lines 409-424: kind, name and parent.
Described(part) ==
    IF Contains(part, "#")
    THEN [kind |-> "method", name |-> Last(Split(part, "#")),
          parent |-> Split(part, "#")[Len(Split(part, "#")) - 1]]
    ELSE IF Contains(part, ".") /\ (part = <<>> \/ part[1] # ".")
    THEN [kind |-> "class", name |-> Last(Split(part, ".")), parent |-> <<>>]
    ELSE [kind |-> "function", name |-> part, parent |-> <<>>]

\* _parse_symbol returned None.
None == [none |-> TRUE]

\* _parse_symbol: the SymbolInfo of a symbol, its line taken from the
\* definition occurrence when there is one.
parse_symbol(symbol_str, file_path, def_occurrence) ==
    IF Described(symbol_part(symbol_str)).name = <<>> THEN None
    ELSE [none |-> FALSE,
          name |-> IF Contains(Described(symbol_part(symbol_str)).name, "(")
                   THEN Split(Described(symbol_part(symbol_str)).name, "(")[1]
                   ELSE Described(symbol_part(symbol_str)).name,
          scip_symbol |-> symbol_str,
          kind |-> Described(symbol_part(symbol_str)).kind,
          file_path |-> file_path,
          line_number |-> IF def_occurrence.ok /\ Len(def_occurrence.v.range) >= 1
                          THEN def_occurrence.v.range[1] ELSE 0,
          parent_symbol |-> Described(symbol_part(symbol_str)).parent]

\* _create_symbol_from_occurrence
create_symbol_from_occurrence(occurrence, file_path) ==
    parse_symbol(occurrence.symbol, file_path,
                 [ok |-> TRUE, v |-> occurrence, err |-> ""])

\* Lines 325-330: the definition occurrences of a document by symbol, from
\* occurrence i on.
RECURSIVE definitions(_, _, _)
definitions(occurrences, i, defs) ==
    IF i > Len(occurrences) THEN defs
    ELSE definitions(occurrences, i + 1,
                     IF occurrences[i].symbol_roles % 2 = 1
                     THEN DictSet(defs, occurrences[i].symbol, occurrences[i])
                     ELSE defs)

\* Lines 333-340: the symbol-information pass, from entry i on.
RECURSIVE InfoPass(_, _, _, _, _)
InfoPass(out, doc_symbols, defs, file_path, i) ==
    IF i > Len(doc_symbols) THEN out
    ELSE InfoPass(
            IF parse_symbol(doc_symbols[i], file_path,
                            DictGet(defs, doc_symbols[i])).none
            THEN out
            ELSE Append(out, parse_symbol(doc_symbols[i], file_path,
                                          DictGet(defs, doc_symbols[i]))),
            doc_symbols, defs, file_path, i + 1)

\* Line 345: any(s.name == symbol_name for s in symbols
\*               if s.file_path == file_path)
Processed(out, symbol_name, file_path) ==
    \E k \in DOMAIN out :
        out[k].file_path = file_path /\ out[k].name = symbol_name

\* Lines 343-349: the occurrence-only pass, from definition i on.
RECURSIVE OccurrencePass(_, _, _, _)
OccurrencePass(out, defs, file_path, i) ==
    IF i > Len(defs) THEN out
    ELSE OccurrencePass(
            IF \/ Processed(out, defs[i].k, file_path)
               \/ create_symbol_from_occurrence(defs[i].v, file_path).none
            THEN out
            ELSE Append(out, create_symbol_from_occurrence(defs[i].v, file_path)),
            defs, file_path, i + 1)

\* _convert_to_index_result: IndexResult.symbols, from document d on.
RECURSIVE convert_to_index_result(_, _, _)
convert_to_index_result(data, d, out) ==
    IF d > Len(data.documents) THEN out
    ELSE convert_to_index_result(data, d + 1,
            OccurrencePass(
                InfoPass(out, data.documents[d].symbols,
                         definitions(data.documents[d].occurrences, 1, <<>>),
                         data.documents[d].relative_path, 1),
                definitions(data.documents[d].occurrences, 1, <<>>),
                data.documents[d].relative_path, 1))

\* Symbol strings: a method and a function in the long format of the
\* docstring of _parse_symbol, and two short ones.
SymbolStrings ==
    {<<"scip-python", " ", "python", " ", "pkg", " ", "1", ".", "0", " ",
       "main", ".", "py", "BACKTICK", "MyClass", "#", "method">>,
     <<"scip-python", " ", "python", " ", "pkg", " ", "1", ".", "0", " ",
       "main", ".", "py", "BACKTICK", "helper">>,
     <<"helper">>,
     <<"pkg", ".", "mod">>}

\* Occurrences: a definition (role 1) or a reference (role 0) of a symbol.
Occurrences ==
    {[symbol |-> sym, symbol_roles |-> r, range |-> <<3, 0, 5>>] :
        sym \in SymbolStrings, r \in {0, 1}}

\* Parsed SCIP data: one document, or the same content in two files.
ScipData(syms, occs, two) ==
    [documents |->
        <<[relative_path |-> "a.py", symbols |-> syms, occurrences |-> occs]>>
        \o (IF two
            THEN <<[relative_path |-> "b.py", symbols |-> syms,
                    occurrences |-> occs]>>
            ELSE <<>>)]

\* SCIPIndexer._convert_to_index_result
Convert ==
    /\ symbols = <<>>
    /\ symbols' = convert_to_index_result(scip_data, 1, <<>>)
    /\ UNCHANGED <<project, tools, chosen, ran, returned, scip_data>>
    /\ UNCHANGED <<sessVars, mgrVars, facVars, recVars>>

---------------------------------------------------------------------------
(* Operations *)

\* No call of run made yet on an empty store.
SessInit ==
    /\ store = {}
    /\ inQuery = <<>>
    /\ inParams = EmptyParams
    /\ outQuery = <<>>
    /\ outParams = EmptyParams
    /\ callerParams = EmptyParams
    /\ status = "idle"
    /\ repeated = FALSE
    /\ executes = 0
    /\ engineMsg = NoMsg
    /\ raisedMsg = NoMsg

Init ==
    /\ SessInit
    /\ MgrInit
    /\ broken = {}
    /\ FacInit
    /\ RecInit
    /\ IdxInit

\* The key values a call carries.
KeyOf(params) ==
    [f \in {"name", "path", "line_number"} \cap DOMAIN params |-> params[f]]

\* err_str = str(e).lower()
err_str(msg) == Lower(msg)

\* Swallowed with "already exists" never tested.
Swallowed_Always(msg) == msg = msg

\* "already exists" in err_str
Swallowed(msg) ==
    HasSubstring(err_str(msg), "already exists")

\* Swallowed of each text the engine may give, computed once.
SwallowedOf ==
    [msg \in Messages("already exists") \cup Messages("other") \cup {NoMsg} |->
        Swallowed(msg)]

\* KuzuSessionWrapper.run: translate, execute once, swallow "already
\* exists", re-raise anything else.
Run(query, parameters) ==
    \E tr \in {translate_query(query, parameters)} :
    \E ex \in {Execute(store, tr.q, tr.params)} :
    \E msg \in Messages(ex.err) :
    \E swallowed \in {~ex.ok /\ SwallowedOf[msg]} :
    /\ inQuery' = query
    /\ inParams' = parameters
    /\ outQuery' = tr.q
    /\ outParams' = tr.params
    /\ callerParams' = tr.caller
    /\ store' = ex.store
    /\ executes' = 1
    /\ engineMsg' = msg
    /\ status' = IF ex.ok THEN "ok"
                 ELSE IF swallowed THEN "noop"
                 ELSE "raised"
    /\ raisedMsg' = IF ex.ok \/ swallowed THEN NoMsg ELSE msg
    /\ UNCHANGED <<mgrVars, facVars, recVars, idxVars>>
    /\ repeated' = (/\ status # "idle"
                    /\ inQuery = query
                    /\ KeyOf(inParams) = KeyOf(parameters))

Next == \E in \in SessionInputs : Run(in.q, in.params)

\* The session driven with upserts whose property map is arbitrary.
NextU == \E in \in UpsertInputs : Run(in.q, in.params)

SpecU == Init /\ [][NextU]_vars

Spec == Init /\ [][Next]_vars

\* The translator on its own: a call is pending with its arguments, then
\* _translate_query returns.
InitT ==
    /\ store = {}
    /\ \E in \in TranslatorInputs :
        /\ inQuery = in.q
        /\ inParams = in.params
        /\ callerParams = in.params
    /\ outQuery = <<>>
    /\ outParams = EmptyParams
    /\ status = "idle"
    /\ repeated = FALSE
    /\ executes = 0
    /\ engineMsg = NoMsg
    /\ raisedMsg = NoMsg
    /\ MgrInit
    /\ broken = {}
    /\ FacInit
    /\ RecInit
    /\ IdxInit

Translate ==
    /\ status = "idle"
    /\ \E tr \in {translate_query(inQuery, inParams)} :
        /\ outQuery' = tr.q
        /\ outParams' = tr.params
        /\ callerParams' = tr.caller
    /\ status' = "translated"
    /\ UNCHANGED <<store, inQuery, inParams, repeated, executes, engineMsg,
                   raisedMsg>>
    /\ UNCHANGED <<mgrVars, facVars, recVars, idxVars>>

NextT == Translate

SpecT == InitT /\ [][NextT]_vars

\* The manager used by concurrent threads.
NextM ==
    \E t \in Threads :
        \/ New_check1(t)
        \/ New_lock(t)
        \/ New_check2(t)
        \/ New_unlock(t)
        \/ New_ret(t)
        \/ Gd_check1(t)
        \/ Gd_lock(t)
        \/ Gd_check2(t)
        \/ Gd_import(t)
        \/ Gd_db(t)
        \/ Gd_conn(t)
        \/ Gd_schema(t)
        \/ Gd_unlock(t)
        \/ Gd_ret(t)
        \/ Close_conn(t)
        \/ Close_db(t)
        \/ Is_connected(t)

\* The database directory may hold a table the engine cannot create, and
\* the process may be interrupted while a table is being created.
BrokenChoices ==
    {{}, {Broken("Macro", "RuntimeError")},
     {Broken("File", "KeyboardInterrupt")}}

InitM ==
    /\ SessInit
    /\ MgrInit
    /\ broken \in BrokenChoices
    /\ environ = [x \in {} |-> ""]
    /\ system = "Linux"
    /\ py312 = TRUE
    /\ installed \in {{}, {"kuzu"}}
    /\ backend = NoBackend
    /\ facpc = "idle"
    /\ RecInit
    /\ IdxInit

SpecM == InitM /\ [][NextM]_vars

\* The factory in each environment.
InitF ==
    /\ SessInit
    /\ MgrInit
    /\ broken = {}
    /\ RecInit
    /\ IdxInit
    /\ \E te \in TypeEnvs, ne \in Neo4jEnvs : environ = te @@ ne
    /\ system \in {"Linux", "Windows"}
    /\ py312 \in BOOLEAN
    /\ installed \in SUBSET {"kuzu", "redislite"}
    /\ backend = NoBackend
    /\ facpc = "idle"

NextF ==
    \/ GetManager
    \/ Fac_check1
    \/ Fac_lock
    \/ Fac_check2
    \/ Fac_unlock
    \/ Fac_ret

SpecF == InitF /\ [][NextF]_vars

\* A result wrapper over each native result.
InitR ==
    /\ SessInit
    /\ MgrInit
    /\ broken = {}
    /\ FacInit
    /\ IdxInit
    /\ heap = [o \in {1} |-> PlainHandle]
    /\ result \in {NoResult} \cup
            {res \in NativeResults :
                \A r \in DOMAIN res.rows : Len(res.rows[r]) = Len(res.cols)}
    /\ records = <<>>
    /\ answer = NoAnswer
    /\ key = NoKey
    /\ got = Nothing

NextR == Iterate \/ Single \/ Data \/ GetItem

SpecR == InitR /\ [][NextR]_vars

\* The result adapter alone: data_raw over every handle a cell can hold.
InitB ==
    /\ SessInit
    /\ MgrInit
    /\ broken = {}
    /\ FacInit
    /\ IdxInit
    /\ heap \in [{1} -> Handles]
    /\ result \in {res \in NativeResults :
                    \A r \in DOMAIN res.rows : Len(res.rows[r]) = Len(res.cols)}
    /\ records = <<>>
    /\ answer = NoAnswer
    /\ key = NoKey
    /\ got = Nothing

NextB == Iterate

SpecB == InitB /\ [][NextB]_vars

\* The hybrid indexer over every project root and every behaviour of the
\* tools.
InitH ==
    /\ SessInit
    /\ MgrInit
    /\ broken = {}
    /\ FacInit
    /\ RecInit
    /\ project \in Projects
    /\ tools \in Tools
    /\ chosen = ""
    /\ ran = <<>>
    /\ returned = NotCalled
    /\ scip_data = NoData
    /\ symbols = <<>>

NextH == Index

SpecH == InitH /\ [][NextH]_vars

\* The SCIP conversion over every parsed index.
InitS ==
    /\ SessInit
    /\ MgrInit
    /\ broken = {}
    /\ FacInit
    /\ RecInit
    /\ project = NoProject
    /\ tools = NoTools
    /\ chosen = ""
    /\ ran = <<>>
    /\ returned = NotCalled
    /\ \E k1 \in 0..MaxEntries, k2 \in 0..MaxEntries :
        \E syms \in [1..k1 -> SymbolStrings], occs \in [1..k2 -> Occurrences],
           two \in BOOLEAN :
            scip_data = ScipData(syms, occs, two)
    /\ symbols = <<>>

NextS == Convert

SpecS == InitS /\ [][NextS]_vars

---------------------------------------------------------------------------
(* Properties of the session and the store *)

\* The statement is MERGE (v:K {key fields}) SET v += $props on a
\* composite-key label K.
IsUpsert(q) ==
    /\ Len(q) = 2
    /\ q[1].t = "MERGE"
    /\ q[1].label \in CompositeLabels
    /\ q[1].props = KeyProps(q[1].label)
    /\ q[2] = SetAdd(q[1].var, "props")

\* Row r is the entity of kind K with the key values of params.
RowHasKey(r, K, params) ==
    /\ r.label = K
    /\ \A i \in DOMAIN KeyProps(K) :
        /\ KeyProps(K)[i].f \in DOMAIN r.cols
        /\ r.cols[KeyProps(K)[i].f] = params[KeyProps(K)[i].p]

\* A property the call supplies for kind K: allow-listed and not a nested
\* value the translator drops.
Supplied(K, item) ==
    /\ item.k \in SCHEMA_MAP(K)
    /\ item.v.ty \in {"map", "list"} => item.k \in {"args", "decorators"}

\* C1: after the same upsert has run twice with the same key values, the
\* store holds exactly one entity of that kind with that key, and it holds
\* the property values of the second call.
C1_RepeatedUpsertStoresOne ==
    (repeated /\ IsUpsert(inQuery) /\ inParams.props.ty = "map") =>
        LET K == inQuery[1].label
            rows == {r \in store : RowHasKey(r, K, inParams)}
            items == inParams.props.m
        IN
        /\ Cardinality(rows) = 1
        /\ \A r \in rows : \A i \in DOMAIN items :
            Supplied(K, items[i]) =>
                /\ items[i].k \in DOMAIN r.cols
                /\ r.cols[items[i].k] = items[i].v

\* C6: the identity synthesized for a call's key values is never the
\* identity of a stored entity of the same kind with other key values.
C6_IdentityCollisionFree ==
    (/\ status # "idle"
     /\ IsUpsert(inQuery)
     /\ uid_param(inQuery[1].var) \in DOMAIN outParams) =>
        \A r \in store :
            (/\ r.label = inQuery[1].label
             /\ r.cols["uid"] = outParams[uid_param(inQuery[1].var)])
                => RowHasKey(r, inQuery[1].label, inParams)

\* The call carries a property map holding docstring alone.
DocstringOnly(params) ==
    /\ params.props.ty = "map"
    /\ Len(params.props.m) = 1
    /\ params.props.m[1].k = "docstring"

\* C7: an upsert whose $props carries only docstring, on an entity the
\* store already holds, sets that entity's docstring and changes nothing
\* else in the store; the rewritten statement assigns docstring alone.
C7_DocstringOnlyUpdate ==
    [][(/\ IsUpsert(inQuery')
        /\ DocstringOnly(inParams')
        /\ \E r \in store : RowHasKey(r, inQuery'[1].label, inParams'))
       =>
       (/\ status' = "ok"
        /\ \E r \in store :
            /\ RowHasKey(r, inQuery'[1].label, inParams')
            /\ store' = (store \ {r}) \cup
                {[r EXCEPT !.cols =
                    ("docstring" :> inParams'.props.m[1].v) @@ r.cols]}
        /\ \A i \in DOMAIN outQuery' :
            outQuery'[i].t = "SETS" =>
                \A j \in DOMAIN outQuery'[i].assigns :
                    outQuery'[i].assigns[j].k = "docstring")]_vars

\* C7 happens: a docstring-only upsert succeeded on an entity that an
\* earlier call had given a source text.
C7_Witness ==
    /\ status = "ok"
    /\ IsUpsert(inQuery)
    /\ DocstringOnly(inParams)
    /\ \E r \in store :
        /\ RowHasKey(r, inQuery[1].label, inParams)
        /\ "source" \in DOMAIN r.cols
        /\ r.cols["docstring"] = StrV("d2")

---------------------------------------------------------------------------
(* Properties of the translator *)

\* A fragment written in the flexible dialect only.
Untranslated(f) ==
    \/ f.t \in {"SETADD", "PRED", "POLY", "RETLABELS0", "DDL"}
    \/ f.t = "RETCOALESCE" /\ ~f.upper

\* C2: for a call that supplies every parameter its query references, the
\* parameters the rewritten query references are exactly the keys of the
\* returned map.
C2_NoOrphanParameters ==
    (status = "translated" /\ used_params(inQuery) \subseteq DOMAIN inParams)
        => used_params(outQuery) = DOMAIN outParams

\* The names the rewrites of a call generate: one per key of an expanded
\* map, one per merge variable.
GeneratedNames(q, params) ==
    UNION {IF q[i].t = "SETADD" /\ ParamGet(params, q[i].param).ty = "map"
           THEN {clean_k(q[i].param, params[q[i].param].m[j].k) :
                    j \in DOMAIN params[q[i].param].m}
           ELSE IF q[i].t = "MERGE" THEN {uid_param(q[i].var)}
           ELSE {} : i \in DOMAIN q}

\* C3: the returned map holds exactly the supplied or generated names that
\* the rewritten query references.
C3_ParameterPruning ==
    status = "translated" =>
        DOMAIN outParams =
            ((DOMAIN inParams) \cup GeneratedNames(inQuery, inParams))
                \cap used_params(outQuery)

\* The key fields of a composite-key kind in declared order.
DeclaredKey(K) ==
    IF K = "Parameter" THEN <<"name", "path", "function_line_number">>
    ELSE <<"name", "path", "line_number">>

\* The parameter an inline block binds to a field.
BoundParam(props, field) ==
    props[CHOOSE j \in DOMAIN props : props[j].f = field].p

\* Every key field of the fragment's kind is bound inline to a non-null
\* parameter.
AllKeysBound(f, params) ==
    \A i \in 1..3 : \E j \in DOMAIN f.props :
        /\ f.props[j].f = DeclaredKey(f.label)[i]
        /\ ParamGet(params, f.props[j].p).ty # "null"

\* The string forms of the key values, concatenated in declared order.
KeyText(f, params) ==
    PyStr(params[BoundParam(f.props, DeclaredKey(f.label)[1])])
        \o PyStr(params[BoundParam(f.props, DeclaredKey(f.label)[2])])
        \o PyStr(params[BoundParam(f.props, DeclaredKey(f.label)[3])])

\* The number of key fields on which two calls differ.
KeyDistance(p1, p2) ==
    Cardinality({f \in {"name", "path", "line_number"} : p1[f] # p2[f]})

\* C4: for an upsert on a composite-key kind, a second property map that
\* agrees on all key fields gets the same identity, and one that differs
\* on exactly one key field gets another identity.
C4_IdentityFollowsKey ==
    (/\ status = "translated"
     /\ IsUpsert(inQuery)
     /\ uid_param(inQuery[1].var) \in DOMAIN outParams) =>
        \A n2 \in Names, p2 \in Paths, l2 \in Lines, pm2 \in PropMaps :
            LET other == UpsertParams(StrV(n2), StrV(p2), IntV(l2), pm2)
                t2 == translate_query(inQuery, other).params
                u == uid_param(inQuery[1].var)
            IN
            /\ u \in DOMAIN t2
            /\ KeyDistance(inParams, other) = 0 => t2[u] = outParams[u]
            /\ KeyDistance(inParams, other) = 1 => t2[u] # outParams[u]

\* C4 happens: an identity was synthesized for an upsert.
C4_Witness ==
    /\ status = "translated"
    /\ IsUpsert(inQuery)
    /\ uid_param(inQuery[1].var) \in DOMAIN outParams
    /\ inParams.props = RichProps

\* C5: a MERGE fragment on a composite-key kind with every key field bound
\* inline to a non-null parameter is rewritten with a uid bound to the key
\* values' string forms concatenated in declared order.
C5_IdentityIsConcatenation ==
    status = "translated" =>
        \A i \in DOMAIN inQuery :
            (/\ inQuery[i].t = "MERGE"
             /\ inQuery[i].label \in CompositeLabels
             /\ AllKeysBound(inQuery[i], inParams)) =>
                \E j \in DOMAIN outQuery :
                    LET f == inQuery[i]
                        g == outQuery[j]
                    IN
                    /\ g.t = "MERGE" /\ g.var = f.var /\ g.label = f.label
                    /\ Len(g.props) = Len(f.props) + 1
                    /\ SubSeq(g.props, 1, Len(f.props)) = f.props
                    /\ g.props[Len(g.props)].f = "uid"
                    /\ g.props[Len(g.props)].p \in DOMAIN outParams
                    /\ outParams[g.props[Len(g.props)].p]
                            = StrV(KeyText(f, inParams))

\* C5 happens: the spec's example, name "foo", path "/x.py", line 10.
C5_Witness ==
    /\ status = "translated"
    /\ inQuery[1].t = "MERGE" /\ inQuery[1].label = "Function"
    /\ KeyOf(inParams) = KeyParams(StrV("foo"), StrV("/x.py"), IntV(10))
    /\ outQuery[1].props = Append(KeyProps("Function"), Prop("uid", "__uid_n"))
    /\ outParams["__uid_n"] = StrV("foo/x.py10")

\* C8: a parenthesised disjunction of label tests on one variable becomes
\* label(v) IN [...], a predicate true of exactly the labels it named.
C8_LabelDisjunctionRewritten ==
    status = "translated" =>
        \A i \in DOMAIN inQuery :
            (/\ inQuery[i].t = "POLY"
             /\ \A k \in DOMAIN inQuery[i].tests :
                    inQuery[i].tests[k].var = inQuery[i].tests[1].var) =>
                /\ outQuery[i].t = "LABELIN"
                /\ outQuery[i].var = inQuery[i].tests[1].var
                /\ \A L \in NodeLabels :
                    L \in Range(outQuery[i].labels)
                        <=> \E k \in DOMAIN inQuery[i].tests :
                                inQuery[i].tests[k].label = L

\* The label of the node pattern that introduces variable v.
PatternLabel(q, v) ==
    IF \E i \in DOMAIN q : q[i].t \in {"MERGE", "MATCH"} /\ q[i].var = v
    THEN q[CHOOSE i \in DOMAIN q : q[i].t \in {"MERGE", "MATCH"} /\ q[i].var = v].label
    ELSE ""

\* The assignments [k, p] the rewritten query makes to variable v.
Assignments(q, v) ==
    UNION {IF q[i].t = "SETS" /\ q[i].var = v THEN Range(q[i].assigns) ELSE {} :
            i \in DOMAIN q}

\* C9: SET v += $p with $p bound to a map and v of a kind the Schema
\* Registry knows is rewritten to one assignment per supplied key of the
\* map, bound to that key's value, and to nothing else.
C9_ExpansionFollowsAllowList ==
    status = "translated" =>
        \A i \in DOMAIN inQuery :
            LET f == inQuery[i]
                L == PatternLabel(inQuery, f.var)
            IN
            (/\ f.t = "SETADD"
             /\ ParamGet(inParams, f.param).ty = "map"
             /\ SCHEMA_MAP(L) # {}) =>
                LET items == inParams[f.param].m
                    made == Assignments(outQuery, f.var)
                IN
                /\ \A j \in DOMAIN items :
                    Supplied(L, items[j]) =>
                        \E a \in made :
                            /\ a.k = items[j].k
                            /\ a.p \in DOMAIN outParams
                            /\ outParams[a.p] = items[j].v
                /\ \A a \in made : \E j \in DOMAIN items :
                    a.k = items[j].k /\ Supplied(L, items[j])

\* C10: the translator never returns a query that still holds a fragment
\* of the flexible dialect.
C10_NoUntranslatedFragment ==
    status = "translated" =>
        \A i \in DOMAIN outQuery : ~Untranslated(outQuery[i])

---------------------------------------------------------------------------
(* Properties of run *)

\* The message holds the text "already exists" in some letter case.
SaysAlreadyExists(msg) ==
    \E i \in 1..(Len(msg) - 13) :
        \A k \in 1..14 :
            SubSeq(msg, i + k - 1, i + k - 1) \in
                {SubSeq("already exists", k, k), SubSeq("ALREADY EXISTS", k, k)}

\* C11: a call of run invokes conn.execute exactly once; an error saying
\* "already exists" gives a no-op success, any other error is raised to
\* the caller as it is, and nothing is raised when execute succeeds.
C11_RunExecutesOnce ==
    status \in {"ok", "noop", "raised"} =>
        /\ executes = 1
        /\ (engineMsg # NoMsg /\ SaysAlreadyExists(engineMsg))
                => (status = "noop" /\ raisedMsg = NoMsg)
        /\ (engineMsg # NoMsg /\ ~SaysAlreadyExists(engineMsg))
                => (status = "raised" /\ raisedMsg = engineMsg)
        /\ engineMsg = NoMsg => (status = "ok" /\ raisedMsg = NoMsg)

\* C11 happens: an "already exists" error was swallowed after a call that
\* raised another error.
C11_Witness ==
    /\ status = "noop"
    /\ executes = 1
    /\ engineMsg # NoMsg
    /\ inQuery = <<CreateTable("Function")>>
    /\ store # {}

---------------------------------------------------------------------------
(* Properties of the connection manager *)

\* The connection a returned driver wraps, 0 for None or for no driver.
Wrapped(t) == IF driver[t] = <<>> THEN 0 ELSE driver[t][1]

\* C12: while close_driver has not been called, concurrent constructions
\* and get_driver calls make one manager object, open and bootstrap the
\* database at most once, and every driver returned wraps that one handle.
C12_SingletonWithoutClose ==
    closes = 0 =>
        /\ created <= 1
        /\ \A t \in Threads : mgr[t] # 0 => (mgr[t] = instance /\ created = 1)
        /\ opens <= 1
        /\ \A t \in Threads :
            pc[t] = "gd_schema" =>
                /\ openedBy[t] \notin schemaDone
                /\ \A u \in Threads \ {t} : pc[u] # "gd_schema"
        /\ \A t \in Threads :
            driver[t] # <<>> => (driver[t] = <<conn>> /\ conn # 0 /\ opens = 1)

\* C12 happens: both threads constructed a manager and hold a driver.
C12_Witness ==
    /\ closes = 0
    /\ \A t \in Threads : mgr[t] = 1 /\ driver[t] = <<1>>

\* C13: with no close_driver call, a driver a thread holds wraps a handle
\* whose schema bootstrap has finished.
C13_NoDriverBeforeBootstrap ==
    closes = 0 =>
        \A t \in Threads : Wrapped(t) # 0 => Wrapped(t) \in schemaDone

\* C14: when get_driver returns to the caller that opened the handle, with
\* no close_driver during the call, every node and relationship table
\* exists.
C14_BootstrapCreatesAllTables ==
    \A t \in Threads :
        (/\ outcome[t] = "returned"
         /\ openedBy[t] # 0
         /\ ~closedDuring[t]) =>
            Range(BootstrapOrder) \subseteq tables

\* One step of the manager as C15 describes it.
C15_Step ==
    /\ \A t \in Threads :
        /\ (pc[t] = "idle" /\ pc'[t] = "cl_db") => conn' = 0
        /\ (pc[t] = "gd_check2" /\ pc'[t] # "gd_check2" /\ conn = 0)
                => pc'[t] = "gd_import"
        /\ (pc[t] = "gd_ret" /\ pc'[t] = "idle")
                => Wrapped(t)' \notin closedHandles
        /\ (pc[t] = "gd_ret" /\ pc'[t] = "idle" /\ openedBy[t] # 0
                /\ ~closedDuring[t])
                => /\ driver'[t] = <<openedBy[t]>>
                   /\ openedBy[t] \in schemaDone
    /\ (connected' # connected /\ conn = 0) => connected' = "no"

\* C15: close_driver clears the cached handle, is_connected then returns
\* false, and the next get_driver opens and bootstraps a new handle and
\* returns a driver on it, never on a closed handle.
C15_CloseThenReopen == [][C15_Step]_vars

\* C15 happens: after a close a driver on the second handle was returned
\* and is_connected had answered no.
C15_Witness ==
    /\ closedHandles = {1}
    /\ 2 \in schemaDone
    /\ \E t \in Threads : driver[t] = <<2>> /\ openedBy[t] = 2
    /\ connected = "no"

\* One step of the manager as C16 describes it.
C16_Step ==
    \A t \in Threads :
        /\ (pc[t] \in {"gd_import", "gd_db", "gd_conn"} /\ pc'[t] = "idle")
                => /\ outcome'[t] \in {"ValueError", "error"}
                   /\ (pc[t] = "gd_import" /\ "kuzu" \notin installed)
                        => outcome'[t] = "ValueError"
                   /\ driver'[t] = <<>>
                   /\ conn' = 0
                   /\ lock' = 0
        /\ (pc[t] = "idle" /\ pc'[t] \in {"gd_lock", "gd_ret"}
                /\ \E u \in Threads : outcome[u] \in {"ValueError", "error"})
                => (conn = 0 => pc'[t] = "gd_lock")

C27_NeverANullConnection ==
    \A t \in Threads :
        /\ outcome[t] = "returned" => driver[t] # <<0>>
        /\ pc[t] = "gd_schema" => conn # 0

---------------------------------------------------------------------------
(* Properties of identity injection and of the translator's purity *)

\* C17: a MERGE fragment on a composite-key kind gains a uid bound to the
\* identity of its own key values when every key field is bound inline
\* to a non-null parameter; otherwise its property list stays as it was
\* and the returned map holds no identity parameter for it.
C17_IdentityInjectedPerFragment ==
    status = "translated" =>
        \A i \in DOMAIN inQuery :
            (inQuery[i].t = "MERGE" /\ inQuery[i].label \in CompositeLabels) =>
                \E j \in DOMAIN outQuery :
                    LET f == inQuery[i]
                        g == outQuery[j]
                    IN
                    /\ g.t = "MERGE" /\ g.var = f.var /\ g.label = f.label
                    /\ IF AllKeysBound(f, inParams)
                       THEN /\ g.props =
                                Append(f.props, Prop("uid", g.props[Len(g.props)].p))
                            /\ g.props[Len(g.props)].p \in DOMAIN outParams
                            /\ outParams[g.props[Len(g.props)].p]
                                    = StrV(KeyText(f, inParams))
                       ELSE /\ g.props = f.props
                            /\ uid_param(f.var) \notin DOMAIN outParams

\* C18: _translate_query leaves the caller's parameter map as it was.
C18_CallerMapUntouched ==
    status = "translated" => callerParams = inParams

---------------------------------------------------------------------------
(* Properties of the backend factory *)

\* The backend variables in the order they are consulted.
TypeOrder == <<"CGC_RUNTIME_DB_TYPE", "DEFAULT_DATABASE", "DATABASE_TYPE">>

\* The positions in TypeOrder of the variables set to a non-empty value.
NonEmpty(env) ==
    {i \in DOMAIN TypeOrder :
        TypeOrder[i] \in DOMAIN env /\ env[TypeOrder[i]] # ""}

\* The smallest element of a non-empty set of numbers.
Least(S) == CHOOSE i \in S : \A j \in S : i <= j

\* A backend can be used in the process's environment.
Usable(b) ==
    CASE b = "kuzudb" -> "kuzu" \in installed
      [] b = "falkordb" ->
            system # "Windows" /\ py312 /\ "redislite" \in installed
      [] b = "neo4j" ->
            \A name \in {"NEO4J_URI", "NEO4J_USERNAME", "NEO4J_PASSWORD"} :
                name \in DOMAIN environ /\ environ[name] # ""
      [] OTHER -> FALSE

FallbackOrder == <<"kuzudb", "falkordb", "neo4j">>

\* C19: the factory gives the manager of the backend named, in any letter
\* case, by the first non-empty of the three variables, or ValueError
\* when that backend is unusable or unknown; with none set it gives the
\* first usable of KuzuDB, FalkorDB, Neo4j, or ValueError.
C19_FactoryChoosesBackend ==
    backend # NoBackend =>
        IF NonEmpty(environ) # {}
        THEN LET b == Lower(environ[TypeOrder[Least(NonEmpty(environ))]]) IN
             backend = IF Usable(b) THEN Manager(b) ELSE ValueError
        ELSE LET ok == {i \in DOMAIN FallbackOrder : Usable(FallbackOrder[i])} IN
             backend = IF ok # {} THEN Manager(FallbackOrder[Least(ok)])
                       ELSE ValueError

\* C19 happens: KuzuDB is named by the second variable in mixed case, is
\* not installed, and ValueError is raised although FalkorDB is usable.
C19_Witness ==
    /\ backend = ValueError
    /\ "CGC_RUNTIME_DB_TYPE" \in DOMAIN environ
    /\ environ["CGC_RUNTIME_DB_TYPE"] = ""
    /\ "DEFAULT_DATABASE" \in DOMAIN environ
    /\ environ["DEFAULT_DATABASE"] = "KuzuDB"
    /\ "DATABASE_TYPE" \in DOMAIN environ
    /\ environ["DATABASE_TYPE"] = "falkordb"
    /\ Usable("falkordb")
    /\ ~Usable("kuzudb")

---------------------------------------------------------------------------
(* Properties of result records *)

\* C20: each record answers every position of its native row by index and
\* by column name with the row's value, and any other index with
\* IndexError; the answer last given to a caller is that one.
C20_RecordByNameAndPosition ==
    records # <<>> =>
        /\ Len(records) = Len(result.rows)
        /\ \A r \in DOMAIN records :
            \A i \in (0 - MaxCols - 1)..(MaxCols + 1) :
                IF 0 <= i /\ i < Len(result.cols)
                THEN /\ getitem(records[r], IntKey(i)).ok
                     /\ getitem(records[r], IntKey(i)).v = result.rows[r][i + 1]
                     /\ getitem(records[r], NameKey(result.cols[i + 1]))
                            = getitem(records[r], IntKey(i))
                ELSE getitem(records[r], IntKey(i)).err = "IndexError"
        /\ (got # Nothing /\ key.k.int) =>
                IF 0 <= key.k.i /\ key.k.i < Len(result.cols)
                THEN got.ok /\ got.v = result.rows[key.rec][key.k.i + 1]
                ELSE got.err = "IndexError"

\* C20 happens: the second column of a row holding a node was read by
\* index.
C20_Witness ==
    /\ got.ok
    /\ key.k = IntKey(1)
    /\ got.v = NodeRef(1)
    /\ result.cols = <<"n.name", "n">>
    /\ \A a \in {"labels", "id", "properties"} : HasAttr(heap[1], a)

\* The natural key of a stored node without a synthesized identity.
NaturalKey(h) ==
    IF h.label = "Module" THEN h.props["name"] ELSE h.props["path"]

\* C21: after data_raw, a node handle that had no id and whose methods
\* answer has the id of its stored node: the uid when the node has one,
\* otherwise the natural key (path for Repository, File and Directory,
\* name for Module), whatever the address of the handle.
C21_StableIdBackfilled ==
    records # <<>> =>
        \A o \in Referenced(result, heap) :
            (/\ heap[o].cls = "Node"
             /\ heap[o].raises = {}
             /\ heap[o].attrs["id"] # StrV("preset"))
            => heap[o].attrs["id"] =
                    IF "uid" \in DOMAIN heap[o].props
                    THEN heap[o].props["uid"]
                    ELSE NaturalKey(heap[o])

\* Classes below Exception: what a failing introspection call raises.
ExceptionClasses ==
    {"ValueError", "RuntimeError", "OSError", "KeyError", "AttributeError",
     "TypeError", "IndexError", "PermissionError", "TimeoutExpired",
     "FileNotFoundError"}

\* C25: reading a native result that has rows and has not been read
\* raises nothing, whatever exception below Exception the methods of its
\* handles raise, and gives one record per native row, each holding
\* under every column the value of the native row, the handle itself
\* where the value is a handle.
C25_Step ==
    (/\ result.next = 1
     /\ result.rows # <<>>
     /\ \A o \in Referenced(result, heap) :
            heap[o].raises # {} => heap[o].error \in ExceptionClasses) =>
        /\ got' = Nothing
        /\ Len(records') = Len(result.rows)
        /\ \A r \in DOMAIN result.rows :
            /\ Len(records'[r].keys) = Len(result.cols)
            /\ \A i \in DOMAIN result.cols :
                DictGet(records'[r].data, result.cols[i]) =
                    [ok |-> TRUE, v |-> result.rows[r][i], err |-> ""]

C25_BackfillNeverFailsRead == [][C25_Step]_vars

\* C25 happens: a result of two columns and two rows was read whose handle
\* raised part of the way through the backfill.
C25_Witness ==
    /\ Len(records) = 2
    /\ Len(result.cols) = 2
    /\ 1 \in Referenced(result, heap)
    /\ heap[1].raises = {"get_properties"}
    /\ heap[1].error = "ValueError"
    /\ HasAttr(heap[1], "labels")
    /\ ~HasAttr(heap[1], "id")

---------------------------------------------------------------------------
(* Further properties of the translator *)

\* C23: when every SET v += $p fragment of the query has its parameter
\* bound to a map, the rewritten query holds no SET v += $p fragment.
C23_EveryBulkMergeExpanded ==
    (/\ status = "translated"
     /\ \E i \in DOMAIN inQuery : inQuery[i].t = "SETADD"
     /\ \A i \in DOMAIN inQuery :
            inQuery[i].t = "SETADD" =>
                /\ inQuery[i].param \in DOMAIN inParams
                /\ inParams[inQuery[i].param].ty = "map")
    => \A i \in DOMAIN outQuery : outQuery[i].t # "SETADD"

\* A label test written inline, v:L, in predicate position.
InlineTest(f) ==
    \/ f.t = "PRED"
    \/ f.t = "POLY" /\ \E k \in DOMAIN f.tests : ~f.tests[k].eq

\* C24: after the translation of a query whose label predicates are single
\* tests after WHERE, AND or OR, or parenthesised disjunctions on one
\* variable, on any schema label, no inline label test is left in
\* predicate position.  The tests of the query are written plainly, without
\* backticks.
C24_LabelPredicatesRewritten ==
    (/\ status = "translated"
     /\ \A i \in DOMAIN inQuery :
            /\ inQuery[i].t = "PRED" =>
                    inQuery[i].label \in NodeLabels /\ ~inQuery[i].tick
            /\ inQuery[i].t = "POLY" =>
                    \A k \in DOMAIN inQuery[i].tests :
                        /\ inQuery[i].tests[k].var = inQuery[i].tests[1].var
                        /\ inQuery[i].tests[k].label \in NodeLabels
                        /\ ~inQuery[i].tests[k].tick)
    => \A i \in DOMAIN outQuery : ~InlineTest(outQuery[i])

\* The string forms of the stored key fields of row r, in declared order.
RECURSIVE StoredKeyText(_, _)
StoredKeyText(r, i) ==
    IF i > Len(uid_map(r.label)) THEN ""
    ELSE (IF uid_map(r.label)[i] \in DOMAIN r.cols
          THEN PyStr(r.cols[uid_map(r.label)[i]]) ELSE "")
         \o StoredKeyText(r, i + 1)

\* C28: whatever upserts the session has run, every stored entity of a
\* composite-key kind has as uid the concatenation of the string forms of
\* its own stored key fields in declared order.
C28_UidAgreesWithStoredKey ==
    \A r \in store :
        r.label \in CompositeLabels =>
            /\ "uid" \in DOMAIN r.cols
            /\ r.cols["uid"] = StrV(StoredKeyText(r, 1))

\* C29: every supplied parameter the rewritten query still references is
\* bound in the returned map to the value the caller supplied; no generated
\* name takes its place.
C29_CallerParametersKept ==
    status = "translated" =>
        \A p \in (DOMAIN inParams) \cap used_params(outQuery) :
            /\ p \in DOMAIN outParams
            /\ outParams[p] = inParams[p]

\* The assignments of a rewritten query that went through the allow-list
\* of the label of their variable, as [label, k].
FilteredAssignments(qin, qout) ==
    UNION {IF qout[i].t = "SETS" /\ SCHEMA_MAP(def_match(qin, qout[i].var)) # {}
           THEN {[label |-> def_match(qin, qout[i].var),
                  k |-> qout[i].assigns[j].k] : j \in DOMAIN qout[i].assigns}
           ELSE {} : i \in DOMAIN qout}

\* C30: the allow-list of every kind is the set of columns of its bootstrap
\* table, the key fields and uid of every composite-key kind are in its
\* allow-list, and every assignment that went through the allow-list names
\* a column of the table.
C30_RegistryAgreesWithBootstrap ==
    /\ \A K \in NodeLabels : SCHEMA_MAP(K) = node_tables(K)
    /\ \A K \in CompositeLabels :
        {uid_map(K)[i] : i \in DOMAIN uid_map(K)} \cup {"uid"} \subseteq SCHEMA_MAP(K)
    /\ status = "translated" =>
        \A a \in FilteredAssignments(inQuery, outQuery) :
            a.k \in node_tables(a.label)

\* A map with keys inside and outside the allow-list was expanded on a
\* Function: the allow-listed keys were assigned.
C30_Witness ==
    /\ status = "translated"
    /\ \E i \in DOMAIN inQuery :
        /\ inQuery[i].t = "SETADD"
        /\ ParamGet(inParams, inQuery[i].param) = RichProps
        /\ def_match(inQuery, inQuery[i].var) = "Function"
    /\ \E a \in FilteredAssignments(inQuery, outQuery) :
        a.label = "Function" /\ a.k = "docstring"

---------------------------------------------------------------------------
(* Properties of the hybrid indexer *)

\* C22: once index has ended, SCIP was chosen only for a Python project
\* whose SCIP probe succeeded; when SCIP was chosen and its indexing
\* succeeded, only SCIP ran and its result is returned; when SCIP was
\* chosen and its indexing raised an exception (a class below Exception),
\* Tree-sitter ran next and index returned Tree-sitter's result or raised
\* Tree-sitter's exception.
C22_FallsBackToTreeSitter ==
    returned.called =>
        /\ chosen = SCIP =>
                /\ validate_project(project)
                /\ is_python_project(project)
                /\ tools.probe = "ok"
        /\ (chosen = SCIP /\ tools.scip = "ok") =>
                /\ ran = <<SCIP>>
                /\ returned.ret = SCIP
                /\ returned.exc = ""
        /\ (chosen = SCIP /\ tools.scip \in ExceptionClasses) =>
                /\ ran = <<SCIP, TREE_SITTER>>
                /\ returned.ret = (IF tools.ts = "ok" THEN TREE_SITTER ELSE "")
                /\ returned.exc = (IF tools.ts = "ok" THEN "" ELSE tools.ts)

\* C22 happens: SCIP was chosen, raised KeyError, and the Tree-sitter
\* result came back.
C22_Witness ==
    /\ returned.called
    /\ chosen = SCIP
    /\ tools.scip = "KeyError"
    /\ ran = <<SCIP, TREE_SITTER>>
    /\ returned.ret = TREE_SITTER

---------------------------------------------------------------------------
(* Properties of the SCIP conversion *)

\* The entries of IndexResult.symbols made for a symbol of a file.
EntriesOf(sym, file_path) ==
    {k \in DOMAIN symbols :
        symbols[k].scip_symbol = sym /\ symbols[k].file_path = file_path}

\* C26: after the conversion, in every document a symbol that has one
\* symbol-information entry and a definition occurrence has exactly one
\* entry in IndexResult.symbols for that file.
C26_DefinedSymbolListedOnce ==
    symbols # <<>> =>
        \A d \in DOMAIN scip_data.documents :
            \A sym \in SymbolStrings :
                (/\ Cardinality({i \in DOMAIN scip_data.documents[d].symbols :
                                    scip_data.documents[d].symbols[i] = sym}) = 1
                 /\ \E j \in DOMAIN scip_data.documents[d].occurrences :
                        /\ scip_data.documents[d].occurrences[j].symbol = sym
                        /\ scip_data.documents[d].occurrences[j].symbol_roles % 2 = 1)
                => Cardinality(EntriesOf(sym,
                        scip_data.documents[d].relative_path)) = 1

=============================================================================
